---- MODULE Spec2Model ----
(***************************************************************************)
(* SensorStreamKit: the ZeroMQ publisher (ZmqPublisher), the periodic      *)
(* publisher built on std::jthread (PeriodicPublisher<T>), the per-type    *)
(* sequence counter of Message<T> and the subscriber (ZmqSubscriber).      *)
(*                                                                         *)
(* Threads are modelled at the granularity of their accesses to shared     *)
(* state.  Caller 0 is the controlling (test / main) thread; callers       *)
(* 1..MaxLaunches are the worker threads launched by start().              *)
(***************************************************************************)
EXTENDS Integers, Sequences, FiniteSets, TLC

\* ------------------------------------------------------------------ bounds
MaxLaunches == 2      \* worker threads launched in total by start()
MaxTicks == 2         \* loop iterations (generate-wrap-publish) of all workers
MaxMainCalls == 1     \* direct publish_raw calls made by the main thread
MaxSubCalls == 1      \* receive_raw calls made by the main thread
MaxInbox == 2         \* multipart messages queued on the SUB socket
MaxSubscribes == 2      \* subscribe calls counted by the socket per prefix
MaxWirePublishes == 2   \* publish_raw calls of the publisher facing a subscriber
MaxWireReceives == 2    \* receive_raw calls of that subscriber
MaxSeqThreads == 2    \* threads constructing Message<T> concurrently
MaxMade == 2          \* envelopes each such thread constructs
MaxObjects == 2       \* sensor objects made with one identifier
MaxPacked == 2        \* envelopes serialized into one buffer
Radix == 4            \* values a byte can take (a byte is a digit of this radix)

\* --------------------------------------------------------------- constants
PollSliceMs == 100    \* milliseconds poll_duration = milliseconds(100)
Main == 0             \* the caller-owned thread
NoThread == 0         \* a jthread that is not joinable

PPs == {"cam_front", "cam_rear"}   \* sensors sharing one ZmqPublisher
SendTimeouts == {-1, 0, 100}       \* PublisherConfig::send_timeout_ms
Workers == 1..MaxLaunches
Callers == 0..MaxLaunches
PayloadTypes == {"CameraFrameData", "ImuData"}
CodecTypes == {"CameraFrameData", "LidarScanData", "ImuData"}
U32Width == 4                      \* sizeof(uint32_t)
SizeWidth == 8                     \* sizeof(size_t)
HeaderSize == 16                   \* MessageHeader::serialized_size

\* Frames are byte strings, written as sequences of chunks so that a prefix
\* of a frame can be taken.
Prefixes == {<<>>, <<"camera">>}
NoMessage == [topic |-> <<>>, data |-> <<>>]
\* the messages the publisher facing a subscriber is asked to send
Messages == {[topic |-> <<"camera", "_rgb">>, data |-> <<"d1">>],
             [topic |-> <<"lidar">>, data |-> <<"d2">>]}
SeqThreads == 1..MaxSeqThreads

VARIABLES
    \* ZmqPublisher
    bound,            \* std::atomic<bool> bound_
    messages_sent,    \* std::atomic<uint64_t> messages_sent_
    send_timeout_ms,  \* config_.send_timeout_ms
    writable,         \* the transport reports ZMQ_POLLOUT
    partial,          \* frames sent with sndmore, message not yet complete
    terminated,       \* std::terminate was called (exception left a thread)
    attached,         \* socket_ holds an endpoint: a bind or connect of it succeeded
    \* publish_raw activations, one per caller
    pc,               \* position of every thread
    elapsed,          \* steady_clock::now() - start_time of the call, in ms
    main_ret,         \* outcome of the main thread's last publish_raw
    ok_returns,       \* publish_raw calls that returned true
    main_stop,        \* stop token handed to main's publish_raw is requested
    mcalls,           \* direct publish_raw calls made so far
    \* PeriodicPublisher
    owner,            \* the PeriodicPublisher whose start() launched a worker
    ticks,            \* generator calls made by the workers so far
    stopreq,          \* stop state of the worker's jthread
    handle,           \* worker_thread_ of each PeriodicPublisher
    nlaunched,        \* workers launched so far
    ctl,              \* the start()/stop() in progress on the main thread
    restarts,         \* start() calls made on a PeriodicPublisher with a joinable thread
    \* SensorManager
    sensors_,         \* std::map<std::string, std::shared_ptr<ISensor>> sensors_
    lookup,           \* the last add_sensor / get_sensor / get_all_sensors call and its result
    mgr,              \* the start_all()/stop_all() in progress and the last one returned
    dtor,             \* the sensor object under destruction and how far its destructor got
    \* Message<T>
    next_seq,         \* the static SequenceCounter of each Message<T>
    seq_type,         \* the payload type T each constructing thread uses
    ctor,             \* the number next_sequence() returned to a constructor under way
    made,             \* header().sequence_number of the envelopes each thread built
    \* Message<T>::serialize / deserialize
    buffer,           \* the std::vector<uint8_t> envelopes are serialized into
    packed,           \* the envelopes serialized so far, with their places in buffer
    data,             \* the ConstPayload handed to deserialize
    decoded,          \* outcome of the last deserialize / receive<T>
    \* ZmqSubscriber
    connected,        \* std::atomic<bool> connected_
    messages_received,\* std::atomic<uint64_t> messages_received_
    receive_timeout_ms, \* config_.receive_timeout_ms
    conflate,         \* config_.conflate of the subscriber
    inbox,            \* multipart messages queued on the SUB socket, as frame sequences
    sub_ret,          \* outcome of the last receive_raw
    rcalls,           \* receive_raw calls made so far
    subscriptions,    \* std::unordered_set<std::string> subscriptions_
    filter,           \* subscriptions held by the SUB socket, counted per prefix
    received,         \* the data receive_raw has returned, in order
    op_ret,           \* outcome of the last subscribe / unsubscribe
    linked,           \* the SUB socket has connected to the endpoint
    \* the messages handed to publish_raw
    pub_msg,          \* topic and data of the main thread's publish_raw
    published         \* data of the main thread's successful publish_raw calls, in order

pubVars == <<bound, messages_sent, send_timeout_ms, writable, partial, terminated, attached>>
callVars == <<pc, elapsed, main_ret, ok_returns, main_stop, mcalls>>
mgrVars == <<sensors_, lookup, mgr, dtor>>
ppVars == <<owner, ticks, stopreq, handle, nlaunched, ctl, restarts, mgrVars>>
seqVars == <<next_seq, seq_type, ctor, made, buffer, packed, data, decoded>>
subVars == <<connected, messages_received, receive_timeout_ms, conflate, inbox, sub_ret, rcalls>>
wireRest == <<subscriptions, filter, received, op_ret, linked, published>>
wireVars == <<wireRest, pub_msg>>
vars == <<pubVars, callVars, ppVars, seqVars, subVars, wireVars>>

\* ---------------------------------------------------------------- helpers

\* a loop condition that never sees the stop request
stop_requested_never(c) == FALSE

\* publish<T> calls publish_raw(topic, buffer): the worker hands over no stop
\* token, so only a direct caller can be cancelled.
stop_requested(c) == c = Main /\ main_stop

\* a publish_raw without the bound_ check
NotBound_never(b) == FALSE

\* if (!bound_) return false;
NotBound(b) == ~b

\* the elapsed time compared without the infinite_timeout test
TimedOut_unsigned(t, e) == e >= t

\* a timeout test that gives up one poll slice early
TimedOut_early(t, e) == t >= 0 /\ e + PollSliceMs >= t

\* every finite timeout counts as elapsed at once
TimedOut_nowait(t, e) == t >= 0

\* a timeout test that lets the elapsed time equal the timeout
TimedOut_strict(t, e) == t >= 0 /\ e > t

\* infinite_timeout = (send_timeout_ms < 0); elapsed >= timeout
TimedOut(t, e) == t >= 0 /\ e >= t

\* every slice lasts the full 100 ms
PollDuration_full(t, e) == PollSliceMs

\* poll_duration = min(100 ms, remaining)
PollDuration(t, e) ==
    IF t < 0 THEN PollSliceMs ELSE IF t - e < PollSliceMs THEN t - e ELSE PollSliceMs

\* a subscriber that never looks at connected_
NotConnected_never(b) == FALSE

\* if (!connected_) return false; / return std::nullopt;
NotConnected(b) == ~b

\* an unsubscribe that does not look the topic up
Subscribed_always(p) == TRUE

\* subscriptions_.find(topic_str) != subscriptions_.end()
Subscribed(p) == p \in subscriptions

\* ZmqSubscriber::is_connected()
is_connected == connected

\* one counter shared by every payload type
CounterOf_shared(T) == "CameraFrameData"

\* static SequenceCounter counter; inside Message<T>::next_sequence(): one
\* counter per instantiation Message<T>, created at first use
CounterOf(T) == T

\* a next() that hands out the value and leaves the counter where it is
SeqNext_same(n) == n

\* SequenceCounter::next(): returns the current value and advances it by one
\* in one atomic step (fetch-add) on a uint32_t; the first call returns 0
SeqNext(n) == (n + 1) % (Radix ^ U32Width)

\* a plain store of a stale value: the increment is lost
FetchAdd_lost(n) == n

\* messages_sent_.fetch_add(1)
FetchAdd(n) == n + 1

\* an assignment that drops the old handle without stopping its thread
AssignStopsOld_never(h) == FALSE

\* jthread::operator=(jthread&&): if joinable(), request_stop() and join()
AssignStopsOld(h) == h # NoThread

\* a stop() that only requests the stop and does not join
JoinWaits_nowait(w) == TRUE

\* join() returns once the thread function has returned
JoinWaits(w) == pc[w] = "done"

\* is_running() without the stop_requested() conjunct
is_running_joinable(p) == handle[p] # NoThread

\* joinable() && !get_stop_token().stop_requested()
is_running(p) == handle[p] # NoThread /\ ~stopreq[handle[p]]

Return(c, ok) ==
    /\ pc' = [pc EXCEPT ![c] = IF c = Main THEN "idle" ELSE "sleep"]
    /\ main_ret' = IF c = Main THEN (IF ok THEN "ok" ELSE "fail") ELSE main_ret
    /\ ok_returns' = IF ok THEN ok_returns + 1 ELSE ok_returns
    /\ elapsed' = [elapsed EXCEPT ![c] = 0]
    /\ pub_msg' = IF c = Main THEN NoMessage ELSE pub_msg

\* if (!bound_) return false; otherwise start_time = now() and the poll loop
Enter(c) ==
    IF NotBound(bound)
      THEN Return(c, FALSE)
      ELSE /\ pc' = [pc EXCEPT ![c] = "loop"]
           /\ elapsed' = [elapsed EXCEPT ![c] = 0]
           /\ main_ret' = IF c = Main THEN "none" ELSE main_ret
           /\ UNCHANGED ok_returns

InPublish(c) == pc[c] \in {"loop", "send_topic", "send_data"}

\* ZeroMQ matches a subscription against the first frame byte by byte
IsPrefix(p, t) == Len(p) <= Len(t) /\ SubSeq(t, 1, Len(p)) = p

\* the SUB socket passes a message when one of its subscriptions is a prefix
\* of the first frame
Matches(f, t) == \E p \in Prefixes : f[p] > 0 /\ IsPrefix(p, t)

\* publish_raw(topic, data) of the main thread; a CameraSensor's worker
\* publishes its serialized frame on the topic "camera"
DataOf(c) == IF c = Main THEN pub_msg.data ELSE <<"frame">>

\* a socket that queues one copy of a message per matching subscribe call
Deliver_per_subscribe(q, m) ==
    IF linked /\ Matches(filter, m[1]) /\ Len(q) < MaxInbox
      THEN IF \E p \in Prefixes : filter[p] > 1 /\ IsPrefix(p, m[1])
             THEN q \o <<m, m>> ELSE Append(q, m)
      ELSE q

\* a queue that hands out the newest message first
Deliver_lifo(q, m) ==
    IF linked /\ Matches(filter, m[1]) /\ Len(q) < MaxInbox THEN <<m>> \o q ELSE q

\* ZMQ_CONFLATE of the SUB socket. ZmqSubscriber's constructor sets rcvhwm
\* and rcvtimeo and nothing else, so the option keeps its default whatever
\* config_.conflate says.
SocketConflate(cfg) == FALSE

\* The PUB socket queues a complete message for the subscriber when the
\* subscriber is connected, its filter matches and its queue has room
\* (below the high-water mark); otherwise the message is dropped. A socket
\* with ZMQ_CONFLATE set keeps the newest message only.
Deliver(q, m) ==
    IF ~(linked /\ Matches(filter, m[1])) THEN q
    ELSE IF SocketConflate(conflate) THEN <<m>>
    ELSE IF Len(q) < MaxInbox THEN Append(q, m) ELSE q

\* while (socket_->get(rcvmore)) recv(extra_msg): the frames taken by the
\* drain loop after the topic and the data frame.
ExtraParts_none(m) == 0
ExtraParts(m) == Len(m) - 2

\* The receive queue after receive_raw has read the message at its head: the
\* frames it did not take stay at the head of the queue.
AfterRecv(q) ==
    LET m == Head(q)
        \* the topic frame alone when rcvmore is false after it, else topic,
        \* data and the drained extra frames
        taken == IF Len(m) = 1 THEN 1 ELSE 2 + ExtraParts(m)
    IN IF taken >= Len(m) THEN Tail(q)
       ELSE <<SubSeq(m, taken + 1, Len(m))>> \o Tail(q)

\* A multipart message of n frames from a peer publisher on topic "camera".
PeerMessage(n) ==
    [i \in 1..n |-> IF i = 1 THEN <<"camera">> ELSE IF i = 2 THEN <<"d1">> ELSE <<"extra">>]

\* ------------------------------------------------- serialization (codec)

\* the larger of two offsets
Max(a, b) == IF a > b THEN a ELSE b

\* w bytes of value v
Fill(w, v) == [i \in 1..w |-> v]

\* size_t arithmetic narrowed to the width of the length prefix
SizeAdd_narrow(a, b) == (a + b) % (Radix ^ U32Width)

\* offset + n in size_t
SizeAdd(a, b) == (a + b) % (Radix ^ SizeWidth)

\* a length prefix cut to its lowest byte
U32Bytes_byte(n) == [i \in 1..U32Width |-> IF i = 1 THEN n % Radix ELSE 0]

\* uint32_t len = static_cast<uint32_t>(s.size()); memcpy(dst, &len, 4)
U32Bytes(n) == [i \in 1..U32Width |-> ((n % (Radix ^ U32Width)) \div (Radix ^ (i - 1))) % Radix]

\* uint32_t len; memcpy(&len, src, 4)
U32Value(b) == b[1] + b[2] * Radix + b[3] * Radix ^ 2 + b[4] * Radix ^ 3

\* memcpy(&field, data.data() + off, k); a byte outside the slice is
\* whatever lies behind it in memory, written 0 here
Read(d, off, k) == [i \in 1..k |-> IF off + i <= Len(d) THEN d[off + i] ELSE 0]

\* data.subspan(k)
Subspan(d, k) == SubSeq(d, k + 1, Len(d))

\* a header serialize that starts the buffer afresh
HeaderSerialize_clear(buf, h) ==
    h.timestamp_ns \o h.sequence_number \o h.message_type \o h.reserved

\* MessageHeader::serialize: resize by 16 and copy the four fields
HeaderSerialize(buf, h) ==
    buf \o h.timestamp_ns \o h.sequence_number \o h.message_type \o h.reserved

\* uint32 length, then the characters
StringSerialize(buf, str) == buf \o U32Bytes(Len(str)) \o str

CameraSerialize(buf, p) ==
    StringSerialize(StringSerialize(buf, p.sensor_id_)
                      \o p.timestamp_ns_ \o p.frame_id \o p.width \o p.height,
                    p.encoding)

LidarSerialize(buf, p) ==
    StringSerialize(buf, p.sensor_id_) \o p.timestamp_ns_ \o p.num_points \o p.scan_duration_ms

ImuSerialize(buf, p) ==
    StringSerialize(buf, p.sensor_id_) \o p.timestamp_ns_
        \o p.accel_x \o p.accel_y \o p.accel_z \o p.gyro_x \o p.gyro_y \o p.gyro_z

PayloadSerialize(buf, T, p) ==
    CASE T = "CameraFrameData" -> CameraSerialize(buf, p)
      [] T = "LidarScanData" -> LidarSerialize(buf, p)
      [] T = "ImuData" -> ImuSerialize(buf, p)

\* Message<T>::serialize: header_.serialize(buffer); payload_.serialize(buffer)
MessageSerialize(buf, e) == PayloadSerialize(HeaderSerialize(buf, e.header), e.T, e.payload)

\* std::nullopt; `last` is the highest index of the slice that was read
Failure(last) == [ok |-> FALSE, value |-> <<>>, last |-> last]

Success(v, last) == [ok |-> TRUE, value |-> v, last |-> last]

\* the sensor_id prefix shared by the three payload decoders: the length,
\* the bound check, the characters
IdField(d) ==
    IF Len(d) < U32Width THEN [ok |-> FALSE, id |-> <<>>, off |-> 0, last |-> 0]
    ELSE LET id_len == U32Value(Read(d, 0, U32Width))
         IN IF Len(d) < SizeAdd(U32Width, id_len)
              THEN [ok |-> FALSE, id |-> <<>>, off |-> 0, last |-> U32Width]
              ELSE [ok |-> TRUE, id |-> Read(d, U32Width, id_len),
                    off |-> SizeAdd(U32Width, id_len), last |-> U32Width + id_len]

CameraDeserialize(d) ==
    LET f == IdField(d)
    IN IF ~f.ok THEN Failure(f.last)
       ELSE IF Len(d) < SizeAdd(f.off, 20) THEN Failure(f.last)
       ELSE LET o == SizeAdd(f.off, 20)
                l == Max(f.last, f.off + 20)
            IN IF Len(d) < SizeAdd(o, U32Width) THEN Failure(l)
               ELSE LET enc_len == U32Value(Read(d, o, U32Width))
                        oe == SizeAdd(o, U32Width)
                        le == Max(l, o + U32Width)
                    IN IF Len(d) < SizeAdd(oe, enc_len) THEN Failure(le)
                       ELSE Success([sensor_id_ |-> f.id,
                                     timestamp_ns_ |-> Read(d, f.off, 8),
                                     frame_id |-> Read(d, f.off + 8, 4),
                                     width |-> Read(d, f.off + 12, 4),
                                     height |-> Read(d, f.off + 16, 4),
                                     encoding |-> Read(d, oe, enc_len)],
                                    Max(le, oe + enc_len))

LidarDeserialize(d) ==
    LET f == IdField(d)
    IN IF ~f.ok THEN Failure(f.last)
       ELSE IF Len(d) < SizeAdd(f.off, 16) THEN Failure(f.last)
       ELSE Success([sensor_id_ |-> f.id,
                     timestamp_ns_ |-> Read(d, f.off, 8),
                     num_points |-> Read(d, f.off + 8, 4),
                     scan_duration_ms |-> Read(d, f.off + 12, 4)],
                    Max(f.last, f.off + 16))

\* an IMU decoder that checks for the timestamp and the accelerations only
ImuDeserialize_accel(d) ==
    LET f == IdField(d)
    IN IF ~f.ok THEN Failure(f.last)
       ELSE IF Len(d) < SizeAdd(f.off, 20) THEN Failure(f.last)
       ELSE Success([sensor_id_ |-> f.id,
                     timestamp_ns_ |-> Read(d, f.off, 8),
                     accel_x |-> Read(d, f.off + 8, 4),
                     accel_y |-> Read(d, f.off + 12, 4),
                     accel_z |-> Read(d, f.off + 16, 4),
                     gyro_x |-> Read(d, f.off + 20, 4),
                     gyro_y |-> Read(d, f.off + 24, 4),
                     gyro_z |-> Read(d, f.off + 28, 4)],
                    Max(f.last, f.off + 32))

ImuDeserialize(d) ==
    LET f == IdField(d)
    IN IF ~f.ok THEN Failure(f.last)
       ELSE IF Len(d) < SizeAdd(f.off, 32) THEN Failure(f.last)
       ELSE Success([sensor_id_ |-> f.id,
                     timestamp_ns_ |-> Read(d, f.off, 8),
                     accel_x |-> Read(d, f.off + 8, 4),
                     accel_y |-> Read(d, f.off + 12, 4),
                     accel_z |-> Read(d, f.off + 16, 4),
                     gyro_x |-> Read(d, f.off + 20, 4),
                     gyro_y |-> Read(d, f.off + 24, 4),
                     gyro_z |-> Read(d, f.off + 28, 4)],
                    Max(f.last, f.off + 32))

PayloadDeserialize(T, d) ==
    CASE T = "CameraFrameData" -> CameraDeserialize(d)
      [] T = "LidarScanData" -> LidarDeserialize(d)
      [] T = "ImuData" -> ImuDeserialize(d)

\* MessageHeader::deserialize on data.subspan(0, 16)
HeaderDeserialize(d) ==
    [timestamp_ns |-> Read(d, 0, 8), sequence_number |-> Read(d, 8, 4),
     message_type |-> Read(d, 12, 2), reserved |-> Read(d, 14, 2)]

\* a deserialize that hands out the header whatever the payload decoder says
MessageDeserialize_header(T, d) ==
    IF Len(d) < HeaderSize THEN Failure(0)
    ELSE Success([T |-> T, header |-> HeaderDeserialize(d),
                  payload |-> PayloadDeserialize(T, Subspan(d, HeaderSize)).value],
                 HeaderSize + PayloadDeserialize(T, Subspan(d, HeaderSize)).last)

\* Message<T>::deserialize
MessageDeserialize(T, d) ==
    IF Len(d) < HeaderSize THEN Failure(0)
    ELSE LET p == PayloadDeserialize(T, Subspan(d, HeaderSize))
         IN IF ~p.ok THEN Failure(HeaderSize + p.last)
            ELSE Success([T |-> T, header |-> HeaderDeserialize(d), payload |-> p.value],
                         HeaderSize + p.last)

\* a receive<T> that hands out an empty envelope when the decode fails
ReceiveTyped_default(T, raw) ==
    IF raw = <<>> THEN <<>>
    ELSE IF MessageDeserialize(T, raw[1]).ok
           THEN <<MessageDeserialize(T, raw[1]).value>>
           ELSE <<[T |-> T]>>

\* receive<T>: nullopt when receive_raw gave nothing, else what
\* Message<T>::deserialize makes of the bytes; an optional is written as a
\* sequence of at most one element
ReceiveTyped(T, raw) ==
    IF raw = <<>> THEN <<>>
    ELSE IF MessageDeserialize(T, raw[1]).ok
           THEN <<MessageDeserialize(T, raw[1]).value>>
           ELSE <<>>

\* envelope values: for every payload type one with empty strings and zero
\* fields and one with long strings and all-ones (non-finite) floats
MaxByte == Radix - 1
ZeroHeader ==
    [timestamp_ns |-> Fill(8, 0), sequence_number |-> Fill(4, 0),
     message_type |-> Fill(2, 0), reserved |-> Fill(2, 0)]
FullHeader ==
    [timestamp_ns |-> Fill(8, MaxByte), sequence_number |-> <<1, 2, 3, 0>>,
     message_type |-> <<1, 0>>, reserved |-> <<0, MaxByte>>]
LongString == <<1, 2, 3, 1, 2>>
Envelopes ==
    {[T |-> "CameraFrameData", header |-> ZeroHeader,
      payload |-> [sensor_id_ |-> <<>>, timestamp_ns_ |-> Fill(8, 0), frame_id |-> Fill(4, 0),
                   width |-> Fill(4, 0), height |-> Fill(4, 0), encoding |-> <<>>]],
     [T |-> "CameraFrameData", header |-> FullHeader,
      payload |-> [sensor_id_ |-> LongString, timestamp_ns_ |-> Fill(8, MaxByte),
                   frame_id |-> <<1, 0, 0, 0>>, width |-> <<0, 2, 0, 0>>,
                   height |-> <<0, 0, 3, 0>>, encoding |-> <<2, 1>>]],
     [T |-> "LidarScanData", header |-> ZeroHeader,
      payload |-> [sensor_id_ |-> <<>>, timestamp_ns_ |-> Fill(8, 0),
                   num_points |-> Fill(4, 0), scan_duration_ms |-> Fill(4, 0)]],
     [T |-> "LidarScanData", header |-> FullHeader,
      payload |-> [sensor_id_ |-> LongString, timestamp_ns_ |-> Fill(8, MaxByte),
                   num_points |-> <<1, 0, 0, 0>>, scan_duration_ms |-> Fill(4, MaxByte)]],
     [T |-> "ImuData", header |-> ZeroHeader,
      payload |-> [sensor_id_ |-> <<>>, timestamp_ns_ |-> Fill(8, 0),
                   accel_x |-> Fill(4, 0), accel_y |-> Fill(4, 0), accel_z |-> Fill(4, 0),
                   gyro_x |-> Fill(4, 0), gyro_y |-> Fill(4, 0), gyro_z |-> Fill(4, 0)]],
     [T |-> "ImuData", header |-> FullHeader,
      payload |-> [sensor_id_ |-> LongString, timestamp_ns_ |-> Fill(8, MaxByte),
                   accel_x |-> Fill(4, MaxByte), accel_y |-> <<0, 0, 0, MaxByte>>,
                   accel_z |-> <<1, 0, 0, 0>>, gyro_x |-> <<0, 0, 2, 1>>,
                   gyro_y |-> <<3, 2, 1, 0>>, gyro_z |-> <<0, 1, 0, 1>>]]}

\* the longest serialized envelope
MaxEncodedLen ==
    LET lens == {Len(MessageSerialize(<<>>, e)) : e \in Envelopes}
    IN CHOOSE m \in lens : \A k \in lens : k <= m

NoResult == [via |-> "none", T |-> "none", got |-> FALSE, ret |-> <<>>, last |-> 0]

\* ------------------------------------------------------------------- Init

InitCodecIdle ==
    /\ buffer = <<>>
    /\ packed = <<>>
    /\ data = <<>>
    /\ decoded = NoResult


InitTransport ==
    /\ messages_sent = 0
    /\ partial = <<>>
    /\ terminated = FALSE
    /\ pc = [c \in Callers |-> IF c = Main THEN "idle" ELSE "unborn"]
    /\ elapsed = [c \in Callers |-> 0]
    /\ main_ret = "none"
    /\ ok_returns = 0
    /\ main_stop = FALSE
    /\ mcalls = 0
    /\ owner = [w \in Workers |-> "none"]
    /\ ticks = 0
    /\ stopreq = [w \in Workers |-> FALSE]
    /\ handle = [p \in PPs |-> NoThread]
    /\ nlaunched = 0
    /\ ctl = [p |-> "none", new |-> NoThread]
    /\ restarts = 0
    /\ next_seq = [t \in PayloadTypes |-> 0]

\* a sensor object: its id() and which of the objects with that id it is
SensorObjects == [id : PPs \cup {"imu_0"}, obj : 1..MaxObjects]

\* an empty std::shared_ptr<ISensor>
Null == [id |-> "", obj |-> 0]

\* no registry call made yet
NoLookup == [op |-> "none", id |-> "", sensor |-> Null, ret |-> <<>>]

\* no sensor is registered and no start_all() / stop_all() is under way
MgrIdle == [op |-> "none", todo |-> <<>>, ret |-> "none"]

InitMgrIdle ==
    /\ sensors_ = [id \in {} |-> Null]
    /\ lookup = NoLookup
    /\ dtor = [p |-> "none", kind |-> "camera", gone |-> 0]
    /\ mgr = MgrIdle

\* no thread constructs envelopes outside a PeriodicPublisher loop
InitSeqIdle ==
    /\ seq_type = [c \in SeqThreads |-> "CameraFrameData"]
    /\ ctor = [c \in SeqThreads |-> <<>>]
    /\ made = [c \in SeqThreads |-> <<>>]
    /\ InitCodecIdle

\* ZmqSubscriber(config): connected_{false}, messages_received_{0}
InitSub ==
    /\ connected = FALSE
    /\ messages_received = 0
    /\ inbox = <<>>
    /\ sub_ret = "none"
    /\ rcalls = 0
    /\ subscriptions = {}
    /\ filter = [p \in Prefixes |-> 0]
    /\ received = <<>>
    /\ op_ret = "none"
    /\ linked = FALSE
    /\ pub_msg = NoMessage
    /\ published = <<>>

Init ==
    /\ InitTransport
    /\ InitMgrIdle
    /\ bound = FALSE
    /\ attached = bound
    /\ writable \in BOOLEAN
    /\ send_timeout_ms \in SendTimeouts
    /\ InitSeqIdle
    /\ InitSub
    /\ receive_timeout_ms = -1
    /\ conflate = FALSE

\* ------------------------------------------------- ZmqPublisher::bind/connect

\* a flag that is set whatever the socket call did
FlagAfter_set(flag, ok) == TRUE

\* bound_ = true after the socket call, bound_ = false in the catch block
\* (connected_ likewise): the flag is the outcome of this call
FlagAfter(flag, ok) == ok

Bind(ok) ==
    /\ ~terminated /\ pc[Main] = "idle"
    /\ bound' = FlagAfter(bound, ok)
    /\ attached' = (attached \/ ok)
    /\ UNCHANGED <<messages_sent, send_timeout_ms, writable, partial, terminated>>
    /\ UNCHANGED <<callVars, ppVars, seqVars, subVars, wireVars>>

Connect(ok) ==
    /\ ~terminated /\ pc[Main] = "idle"
    /\ bound' = FlagAfter(bound, ok)
    /\ attached' = (attached \/ ok)
    /\ UNCHANGED <<messages_sent, send_timeout_ms, writable, partial, terminated>>
    /\ UNCHANGED <<callVars, ppVars, seqVars, subVars, wireVars>>

\* ------------------------------------------------- ZmqPublisher::publish_raw

\* One iteration of while (!stoken.stop_requested()): the cancellation and
\* timeout checks, then zmq::poll for at most poll_duration.
\* `late`: the thread was descheduled past a positive deadline before it
\* read the clock.
PublishLoop(c, late) ==
    /\ ~terminated /\ pc[c] = "loop"
    /\ LET e == IF late /\ send_timeout_ms > 0 THEN send_timeout_ms ELSE elapsed[c]
       IN IF stop_requested(c) \/ TimedOut(send_timeout_ms, e)
            THEN Return(c, FALSE)
            ELSE /\ IF writable
                      THEN /\ pc' = [pc EXCEPT ![c] = "send_topic"]
                           /\ elapsed' = [elapsed EXCEPT ![c] = e]
                      ELSE /\ pc' = pc
                           /\ elapsed' = [elapsed EXCEPT ![c] =
                                 IF send_timeout_ms < 0 THEN 0
                                 ELSE e + PollDuration(send_timeout_ms, e)]
                 /\ UNCHANGED <<main_ret, ok_returns, pub_msg>>
    /\ UNCHANGED <<pubVars, main_stop, mcalls, ppVars, seqVars, subVars, wireRest>>

\* zmq::poll throws zmq::error_t when zmq_poll fails; the call is outside the
\* try block, so the exception leaves publish_raw. In a worker it leaves the
\* thread function and std::terminate ends the process.
PublishPollFault(c) ==
    /\ ~terminated /\ pc[c] = "loop"
    /\ ~stop_requested(c) /\ ~TimedOut(send_timeout_ms, elapsed[c])
    /\ IF c = Main
         THEN /\ pc' = [pc EXCEPT ![c] = "idle"]
              /\ main_ret' = "fault"
              /\ elapsed' = [elapsed EXCEPT ![c] = 0]
              /\ pub_msg' = NoMessage
              /\ UNCHANGED terminated
         ELSE /\ terminated' = TRUE
              /\ UNCHANGED <<pc, main_ret, elapsed, pub_msg>>
    /\ UNCHANGED <<bound, messages_sent, send_timeout_ms, writable, partial, attached>>
    /\ UNCHANGED <<ok_returns, main_stop, mcalls, ppVars, seqVars, subVars, wireRest>>

SendTopic(c) ==
    /\ ~terminated /\ pc[c] = "send_topic"
    /\ partial' = Append(partial, [kind |-> "topic", by |-> c, val |-> IF c = Main THEN pub_msg.topic ELSE <<"camera">>])
    /\ pc' = [pc EXCEPT ![c] = "send_data"]
    /\ UNCHANGED <<bound, messages_sent, send_timeout_ms, writable, terminated, attached>>
    /\ UNCHANGED <<elapsed, main_ret, ok_returns, main_stop, mcalls, ppVars, seqVars, subVars, wireVars>>

SendTopicThrows(c) ==
    /\ ~terminated /\ pc[c] = "send_topic"
    /\ Return(c, FALSE)
    /\ UNCHANGED <<bound, messages_sent, send_timeout_ms, writable, partial, terminated, attached>>
    /\ UNCHANGED <<main_stop, mcalls, ppVars, seqVars, subVars, wireRest>>

\* The data frame completes the multipart message; with it the socket hands
\* the message over and the counter is incremented.
SendData(c) ==
    /\ ~terminated /\ pc[c] = "send_data"
    /\ partial' = <<>>
    /\ inbox' = Deliver(inbox, [i \in 1..Len(partial) |-> partial[i].val] \o <<DataOf(c)>>)
    /\ messages_sent' = FetchAdd(messages_sent)
    /\ published' = IF c = Main THEN Append(published, DataOf(c)) ELSE published
    /\ Return(c, TRUE)
    /\ UNCHANGED <<bound, send_timeout_ms, writable, terminated, attached>>
    /\ UNCHANGED <<main_stop, mcalls, ppVars, seqVars>>
    /\ UNCHANGED <<connected, messages_received, receive_timeout_ms, conflate, sub_ret, rcalls>>
    /\ UNCHANGED <<subscriptions, filter, received, op_ret, linked>>

SendDataThrows(c) ==
    /\ ~terminated /\ pc[c] = "send_data"
    /\ Return(c, FALSE)
    /\ UNCHANGED <<bound, messages_sent, send_timeout_ms, writable, partial, terminated, attached>>
    /\ UNCHANGED <<main_stop, mcalls, ppVars, seqVars, subVars, wireRest>>

\* A direct publish_raw(topic, data, stoken) from the main thread; `pre`: the
\* stop was requested before the call.
CallPublish(pre, t, d) ==
    /\ ~terminated /\ pc[Main] = "idle"
    /\ mcalls' = mcalls + 1
    /\ main_stop' = pre
    /\ Enter(Main)
    /\ NotBound(bound) \/ pub_msg' = [topic |-> t, data |-> d]
    /\ UNCHANGED <<pubVars, ppVars, seqVars, subVars, wireRest>>

MainPublish(pre, t, d) == mcalls < MaxMainCalls /\ CallPublish(pre, t, d)

\* The owner of the stop source requests a stop while the call is under way.
CancelMain ==
    /\ ~terminated /\ InPublish(Main) /\ ~main_stop
    /\ main_stop' = TRUE
    /\ UNCHANGED <<pubVars, pc, elapsed, main_ret, ok_returns, mcalls, ppVars, seqVars, subVars, wireVars>>

\* The transport becomes (un)writable.
SetWritable(b) ==
    /\ ~terminated /\ writable # b
    /\ writable' = b
    /\ UNCHANGED <<bound, messages_sent, send_timeout_ms, partial, terminated, attached>>
    /\ UNCHANGED <<callVars, ppVars, seqVars, subVars, wireVars>>

\* ------------------------------------------------ PeriodicPublisher worker

\* while (!stoken.stop_requested())
WorkerCheck(w) ==
    /\ ~terminated /\ pc[w] = "check"
    /\ IF stopreq[w]
         THEN pc' = [pc EXCEPT ![w] = "done"]
         ELSE /\ ticks < MaxTicks
              /\ pc' = [pc EXCEPT ![w] = "gen"]
    /\ UNCHANGED <<pubVars, elapsed, main_ret, ok_returns, main_stop, mcalls, ppVars, seqVars, subVars, wireVars>>

\* T data = generator_(); Message<T> message(data); publisher_.publish(...)
WorkerGenerate(w) ==
    /\ ~terminated /\ pc[w] = "gen"
    /\ ticks' = ticks + 1
    /\ next_seq' = [next_seq EXCEPT ![CounterOf("CameraFrameData")] = SeqNext(@)]
    /\ UNCHANGED <<seq_type, ctor, made, buffer, packed, data, decoded, subVars, wireVars>>
    /\ Enter(w)
    /\ UNCHANGED <<pubVars, main_stop, mcalls>>
    /\ UNCHANGED <<mgrVars, owner, stopreq, handle, nlaunched, ctl, restarts>>

\* std::this_thread::sleep_for(interval_)
WorkerSleep(w) ==
    /\ ~terminated /\ pc[w] = "sleep"
    /\ pc' = [pc EXCEPT ![w] = "check"]
    /\ UNCHANGED <<pubVars, elapsed, main_ret, ok_returns, main_stop, mcalls, ppVars, seqVars, subVars, wireVars>>

\* ------------------------------------------- PeriodicPublisher::start/stop

\* std::jthread([this](std::stop_token) {...}): the new thread starts.
Launch(p) ==
    /\ ~terminated /\ pc[Main] = "idle"
    /\ nlaunched < MaxLaunches
    /\ LET w == nlaunched + 1
       IN /\ nlaunched' = w
          /\ owner' = [owner EXCEPT ![w] = p]
          /\ pc' = [pc EXCEPT ![w] = "check", ![Main] = "start_assign"]
          /\ ctl' = [p |-> p, new |-> w]
    /\ UNCHANGED <<pubVars, elapsed, main_ret, ok_returns, main_stop, mcalls>>
    /\ UNCHANGED <<ticks, stopreq, handle, restarts, seqVars, subVars, wireVars>>

\* sensor->start() / periodic_pub_.start() called by the owner of the sensor
StartLaunch(p) == mgr.op = "none" /\ Launch(p) /\ UNCHANGED mgrVars

\* worker_thread_ = <the new jthread>: jthread's move assignment requests a
\* stop of the thread it held and joins it before it takes the new one.
StartAssign ==
    /\ ~terminated /\ pc[Main] = "start_assign"
    /\ IF AssignStopsOld(handle[ctl.p])
         THEN /\ stopreq' = [stopreq EXCEPT ![handle[ctl.p]] = TRUE]
              /\ pc' = [pc EXCEPT ![Main] = "start_join"]
              /\ restarts' = restarts + 1
              /\ UNCHANGED <<handle, ctl>>
         ELSE /\ handle' = [handle EXCEPT ![ctl.p] = ctl.new]
              /\ pc' = [pc EXCEPT ![Main] = "idle"]
              /\ ctl' = [p |-> "none", new |-> NoThread]
              /\ UNCHANGED <<stopreq, restarts>>
    /\ UNCHANGED <<pubVars, elapsed, main_ret, ok_returns, main_stop, mcalls>>
    /\ UNCHANGED <<mgrVars, owner, ticks, nlaunched, seqVars, subVars, wireVars>>

StartJoin ==
    /\ ~terminated /\ pc[Main] = "start_join"
    /\ JoinWaits(handle[ctl.p])
    /\ handle' = [handle EXCEPT ![ctl.p] = ctl.new]
    /\ pc' = [pc EXCEPT ![Main] = "idle"]
    /\ ctl' = [p |-> "none", new |-> NoThread]
    /\ UNCHANGED <<pubVars, elapsed, main_ret, ok_returns, main_stop, mcalls>>
    /\ UNCHANGED <<mgrVars, owner, ticks, stopreq, nlaunched, restarts, seqVars, subVars, wireVars>>

\* a stop request that reaches every thread
RequestedStop_all(s, h) == [w \in DOMAIN s |-> TRUE]

\* worker_thread_.request_stop(): the stop state of the thread this
\* PeriodicPublisher holds, and of no other
RequestedStop(s, h) == [s EXCEPT ![h] = TRUE]

\* if (worker_thread_.joinable()) { request_stop(); join(); }
RequestStop(p) ==
    /\ ~terminated /\ pc[Main] = "idle"
    /\ handle[p] # NoThread
    /\ stopreq' = RequestedStop(stopreq, handle[p])
    /\ pc' = [pc EXCEPT ![Main] = "stop_join"]
    /\ ctl' = [p |-> p, new |-> NoThread]
    /\ UNCHANGED <<pubVars, elapsed, main_ret, ok_returns, main_stop, mcalls>>
    /\ UNCHANGED <<owner, ticks, handle, nlaunched, restarts, seqVars, subVars, wireVars>>

\* sensor->stop() / periodic_pub_.stop() called by the owner of the sensor
StopCall(p) == mgr.op = "none" /\ RequestStop(p) /\ UNCHANGED mgrVars

StopJoin ==
    /\ ~terminated /\ pc[Main] = "stop_join"
    /\ JoinWaits(handle[ctl.p])
    /\ handle' = [handle EXCEPT ![ctl.p] = NoThread]
    /\ pc' = [pc EXCEPT ![Main] = "idle"]
    /\ ctl' = [p |-> "none", new |-> NoThread]
    /\ UNCHANGED <<pubVars, elapsed, main_ret, ok_returns, main_stop, mcalls>>
    /\ UNCHANGED <<mgrVars, owner, ticks, stopreq, nlaunched, restarts, seqVars, subVars, wireVars>>

\* ------------------------------------------------------------------- Spec

Next ==
    \/ \E ok \in BOOLEAN : Bind(ok)
    \/ \E ok \in BOOLEAN : Connect(ok)
    \/ \E c \in Callers, late \in BOOLEAN : PublishLoop(c, late)
    \/ \E c \in Callers : PublishPollFault(c)
    \/ \E c \in Callers : SendTopic(c)
    \/ \E c \in Callers : SendTopicThrows(c)
    \/ \E c \in Callers : SendData(c)
    \/ \E c \in Callers : SendDataThrows(c)
    \/ \E b \in BOOLEAN : SetWritable(b)
    \/ \E w \in Workers : WorkerCheck(w)
    \/ \E w \in Workers : WorkerGenerate(w)
    \/ \E w \in Workers : WorkerSleep(w)
    \/ \E p \in PPs : StartLaunch(p)
    \/ StartAssign
    \/ StartJoin
    \/ \E p \in PPs : StopCall(p)
    \/ StopJoin

Spec == Init /\ [][Next]_vars

\* ------------------------------------------------------------ ZmqSubscriber

\* socket_->connect(endpoint); connected_ = true, or false when it throws
SubConnect(ok) ==
    /\ pc[Main] = "idle"
    /\ connected' = FlagAfter(connected, ok)
    /\ linked' = (linked \/ ok)
    /\ UNCHANGED <<messages_received, receive_timeout_ms, conflate, inbox, sub_ret, rcalls>>
    /\ UNCHANGED <<pubVars, callVars, ppVars, seqVars>>
    /\ UNCHANGED <<subscriptions, filter, received, op_ret, pub_msg, published>>

\* A peer's multipart message of n frames passes the filter and is queued on
\* the connected socket.
Arrive(n) ==
    /\ Deliver(inbox, PeerMessage(n)) # inbox
    /\ inbox' = Deliver(inbox, PeerMessage(n))
    /\ UNCHANGED <<connected, messages_received, receive_timeout_ms, conflate, sub_ret, rcalls>>
    /\ UNCHANGED <<pubVars, callVars, ppVars, seqVars, wireVars>>

\* subscribe(topic): if (!connected_) return false; set(subscribe, topic) and
\* subscriptions_.emplace(topic), or false when the socket option throws.
\* The socket counts every subscribe of a prefix.
Subscribe(p, ok) ==
    /\ pc[Main] = "idle"
    /\ filter[p] < MaxSubscribes
    /\ IF ~NotConnected(connected) /\ ok
         THEN /\ filter' = [filter EXCEPT ![p] = @ + 1]
              /\ subscriptions' = subscriptions \cup {p}
              /\ op_ret' = "true"
         ELSE /\ op_ret' = "false"
              /\ UNCHANGED <<filter, subscriptions>>
    /\ UNCHANGED <<pubVars, callVars, ppVars, seqVars, subVars>>
    /\ UNCHANGED <<received, linked, pub_msg, published>>

\* unsubscribe(topic): false when not connected or when topic is not in
\* subscriptions_; otherwise set(unsubscribe, topic) and erase, or false when
\* the socket option throws. The socket drops one subscribe of the prefix.
Unsubscribe(p, ok) ==
    /\ pc[Main] = "idle"
    /\ IF ~NotConnected(connected) /\ Subscribed(p) /\ ok
         THEN /\ filter' = [filter EXCEPT ![p] = @ - 1]
              /\ subscriptions' = subscriptions \ {p}
              /\ op_ret' = "true"
         ELSE /\ op_ret' = "false"
              /\ UNCHANGED <<filter, subscriptions>>
    /\ UNCHANGED <<pubVars, callVars, ppVars, seqVars, subVars>>
    /\ UNCHANGED <<received, linked, pub_msg, published>>

\* receive_raw returns r to its caller
ReceiveReturn(r) ==
    /\ pc' = [pc EXCEPT ![Main] = "idle"]
    /\ elapsed' = [elapsed EXCEPT ![Main] = 0]
    /\ sub_ret' = r

\* receive_raw(stoken): if (!connected_) return std::nullopt; otherwise
\* start_time = now() and the poll loop
CallReceive(pre) ==
    /\ pc[Main] = "idle"
    /\ rcalls' = rcalls + 1
    /\ main_stop' = pre
    /\ IF NotConnected(connected)
         THEN ReceiveReturn("nullopt")
         ELSE /\ pc' = [pc EXCEPT ![Main] = "rloop"]
              /\ elapsed' = [elapsed EXCEPT ![Main] = 0]
              /\ sub_ret' = "none"
    /\ UNCHANGED <<connected, messages_received, receive_timeout_ms, conflate, inbox>>
    /\ UNCHANGED <<pubVars, main_ret, ok_returns, mcalls, ppVars, seqVars, wireVars>>

ReceiveRaw(pre) == rcalls < MaxSubCalls /\ CallReceive(pre)

\* steady_clock::now() - start_time as receive_raw reads it at the top of an
\* iteration: the time the polls have taken, or, when the thread was held up
\* (late), the deadline
ReceiveClock(late) ==
    IF late /\ receive_timeout_ms > 0 THEN receive_timeout_ms ELSE elapsed[Main]

\* One iteration of while (!stoken.stop_requested()): timeout check, then
\* zmq::poll(ZMQ_POLLIN) for at most poll_duration.
ReceiveLoop(late) ==
    /\ pc[Main] = "rloop"
    /\ LET e == ReceiveClock(late)
       IN IF main_stop \/ TimedOut(receive_timeout_ms, e)
            THEN ReceiveReturn("nullopt")
            ELSE /\ IF inbox # <<>>
                      THEN /\ pc' = [pc EXCEPT ![Main] = "recv"]
                           /\ elapsed' = [elapsed EXCEPT ![Main] = e]
                      ELSE /\ pc' = pc
                           /\ elapsed' = [elapsed EXCEPT ![Main] =
                                 IF receive_timeout_ms < 0 THEN 0
                                 ELSE e + PollDuration(receive_timeout_ms, e)]
                 /\ UNCHANGED sub_ret
    /\ UNCHANGED <<connected, messages_received, receive_timeout_ms, conflate, inbox, rcalls>>
    /\ UNCHANGED <<pubVars, main_ret, ok_returns, main_stop, mcalls, ppVars, seqVars, wireVars>>

\* zmq::poll throws zmq::error_t outside the try block: the exception leaves
\* receive_raw.
ReceivePollFault ==
    /\ pc[Main] = "rloop"
    /\ ~main_stop /\ ~TimedOut(receive_timeout_ms, elapsed[Main])
    /\ ReceiveReturn("fault")
    /\ UNCHANGED <<connected, messages_received, receive_timeout_ms, conflate, inbox, rcalls>>
    /\ UNCHANGED <<pubVars, main_ret, ok_returns, main_stop, mcalls, ppVars, seqVars, wireVars>>

\* recv(topic_msg); if (!rcvmore) return nullopt; recv(data_msg); drain the
\* extra frames; messages_received_.fetch_add(1); return data
Receive ==
    /\ pc[Main] = "recv"
    /\ inbox' = AfterRecv(inbox)
    /\ IF Len(Head(inbox)) = 1
         THEN /\ ReceiveReturn("nullopt")
              /\ UNCHANGED <<messages_received, received>>
         ELSE /\ messages_received' = FetchAdd(messages_received)
              /\ received' = Append(received, Head(inbox)[2])
              /\ ReceiveReturn("data")
    /\ UNCHANGED <<connected, receive_timeout_ms, conflate, rcalls>>
    /\ UNCHANGED <<pubVars, main_ret, ok_returns, main_stop, mcalls, ppVars, seqVars>>
    /\ UNCHANGED <<subscriptions, filter, op_ret, linked, pub_msg, published>>

\* catch (const zmq::error_t&) return std::nullopt; the message may or may
\* not have been taken off the socket.
ReceiveThrows(taken) ==
    /\ pc[Main] = "recv"
    /\ inbox' = IF taken THEN Tail(inbox) ELSE inbox
    /\ ReceiveReturn("nullopt")
    /\ UNCHANGED <<connected, messages_received, receive_timeout_ms, conflate, rcalls>>
    /\ UNCHANGED <<pubVars, main_ret, ok_returns, main_stop, mcalls, ppVars, seqVars, wireVars>>

\* The owner of the stop source requests a stop while receive_raw is under way.
CancelReceive ==
    /\ pc[Main] \in {"rloop", "recv"} /\ ~main_stop
    /\ main_stop' = TRUE
    /\ UNCHANGED <<pubVars, pc, elapsed, main_ret, ok_returns, mcalls, ppVars>>
    /\ UNCHANGED <<seqVars, subVars, wireVars>>

\* ------------------------- publish_raw / receive_raw called by one thread

InitRaw ==
    /\ InitTransport
    /\ InitMgrIdle
    /\ bound = FALSE
    /\ attached = bound
    /\ writable \in BOOLEAN
    /\ send_timeout_ms \in {-1, 0, 150}
    /\ InitSeqIdle
    /\ messages_received = 0
    /\ inbox = <<>>
    /\ sub_ret = "none"
    /\ rcalls = 0
    /\ received = <<>>
    /\ op_ret = "none"
    /\ pub_msg = NoMessage
    /\ published = <<>>
    /\ receive_timeout_ms \in {-1, 0, 150}
    /\ conflate = FALSE
    \* the subscriber is either fresh, or connected and subscribed to "camera"
    /\ connected \in BOOLEAN
    /\ linked = connected
    /\ subscriptions = IF connected THEN {<<"camera">>} ELSE {}
    /\ filter = [p \in Prefixes |-> IF connected /\ p = <<"camera">> THEN 1 ELSE 0]

NextRaw ==
    \/ \E ok \in BOOLEAN : Bind(ok)
    \/ \E ok \in BOOLEAN : Connect(ok)
    \/ \E b \in BOOLEAN : SetWritable(b)
    \/ \E pre \in BOOLEAN : MainPublish(pre, <<"camera">>, <<"d1">>)
    \/ CancelMain
    \/ \E late \in BOOLEAN : PublishLoop(Main, late)
    \/ PublishPollFault(Main)
    \/ SendTopic(Main)
    \/ SendTopicThrows(Main)
    \/ SendData(Main)
    \/ SendDataThrows(Main)
    \/ \E ok \in BOOLEAN : SubConnect(ok)
    \/ \E n \in {1, 2, 3} : Arrive(n)
    \/ \E pre \in BOOLEAN : ReceiveRaw(pre)
    \/ CancelReceive
    \/ \E late \in BOOLEAN : ReceiveLoop(late)
    \/ ReceivePollFault
    \/ Receive
    \/ \E taken \in BOOLEAN : ReceiveThrows(taken)

SpecRaw == InitRaw /\ [][NextRaw]_vars

\* The thread inside receive_raw keeps running: its poll loop is scheduled
\* again and again.
SpecRawFair == SpecRaw /\ WF_vars(\E late \in BOOLEAN : ReceiveLoop(late))

\* ------------------ one publisher and one subscriber on the same endpoint

\* Messages reach a subscriber whose subscription the publisher already
\* knows; the time a fresh subscription takes to propagate is left out.
InitWire ==
    /\ InitTransport
    /\ InitMgrIdle
    /\ bound = FALSE
    /\ attached = bound
    /\ writable = TRUE
    /\ send_timeout_ms = -1
    /\ InitSeqIdle
    /\ InitSub
    /\ receive_timeout_ms = PollSliceMs
    /\ conflate = FALSE

WirePublish(t, d) == mcalls < MaxWirePublishes /\ CallPublish(FALSE, t, d)

WireReceive == rcalls < MaxWireReceives /\ CallReceive(FALSE)

NextWire ==
    \/ \E ok \in BOOLEAN : Bind(ok)
    \/ \E ok \in BOOLEAN : Connect(ok)
    \/ \E m \in Messages : WirePublish(m.topic, m.data)
    \/ PublishLoop(Main, FALSE)
    \/ SendTopic(Main)
    \/ SendData(Main)
    \/ SendDataThrows(Main)
    \/ \E ok \in BOOLEAN : SubConnect(ok)
    \/ \E p \in Prefixes, ok \in BOOLEAN : Subscribe(p, ok)
    \/ \E p \in Prefixes, ok \in BOOLEAN : Unsubscribe(p, ok)
    \/ WireReceive
    \/ ReceiveLoop(FALSE)
    \/ Receive

SpecWire == InitWire /\ [][NextWire]_vars

\* the same publisher and subscriber, the subscriber constructed with
\* SubscriberConfig{.conflate = true}
InitConflate ==
    /\ InitTransport
    /\ InitMgrIdle
    /\ bound = FALSE
    /\ attached = bound
    /\ writable = TRUE
    /\ send_timeout_ms = -1
    /\ InitSeqIdle
    /\ InitSub
    /\ receive_timeout_ms = PollSliceMs
    /\ conflate = TRUE

SpecConflate == InitConflate /\ [][NextWire]_vars

\* ------------------------- PeriodicPublisher on a bound, write-ready socket

\* The publisher was bound before start(); the transport stays write-ready
\* and raises no fault, and a worker reads the clock before its deadline.
InitLive ==
    /\ InitTransport
    /\ InitMgrIdle
    /\ bound = TRUE
    /\ attached = bound
    /\ writable = TRUE
    /\ send_timeout_ms \in SendTimeouts
    /\ InitSeqIdle
    /\ InitSub
    /\ receive_timeout_ms = -1
    /\ conflate = FALSE

\* the steps of the thread function of worker w
WorkerStep(w) ==
    \/ WorkerCheck(w)
    \/ WorkerGenerate(w)
    \/ PublishLoop(w, FALSE)
    \/ SendTopic(w)
    \/ SendData(w)
    \/ WorkerSleep(w)

NextLive ==
    \/ \E w \in Workers : WorkerStep(w)
    \/ \E p \in PPs : StartLaunch(p)
    \/ StartAssign
    \/ StartJoin
    \/ \E p \in PPs : StopCall(p)
    \/ StopJoin

\* every launched thread is scheduled again and again
SpecLive ==
    InitLive /\ [][NextLive]_vars /\ \A w \in Workers : WF_vars(WorkerStep(w))

\* The publisher is bound; its transport may or may not be write-ready, and
\* its readiness changes at the will of the peers.
InitStop ==
    /\ InitTransport
    /\ InitMgrIdle
    /\ bound = TRUE
    /\ attached = bound
    /\ writable \in BOOLEAN
    /\ send_timeout_ms \in SendTimeouts
    /\ InitSeqIdle
    /\ InitSub
    /\ receive_timeout_ms = -1
    /\ conflate = FALSE

NextStop ==
    \/ \E w \in Workers : WorkerStep(w)
    \/ \E b \in BOOLEAN : SetWritable(b)
    \/ \E p \in PPs : StartLaunch(p)
    \/ \E p \in PPs : StopCall(p)
    \/ StartAssign
    \/ StartJoin
    \/ StopJoin

\* every launched thread and the thread inside start() or stop() (the move
\* assignment and the joins) are scheduled again and again
SpecStop ==
    /\ InitStop /\ [][NextStop]_vars
    /\ WF_vars(StartAssign \/ StartJoin \/ StopJoin)
    /\ \A w \in Workers : WF_vars(WorkerStep(w))

\* ------------------------------------------------- ~CameraSensor and kin

\* the non-static data members of a sensor class in the order of their
\* declaration
Members(kind) ==
    CASE kind = "camera" -> <<"id_", "publisher_", "interval_", "frame_id_", "periodic_pub_">>
      [] kind = "lidar" -> <<"id_", "publisher_", "interval_", "periodic_pub_">>
      [] kind = "imu" -> <<"id_", "publisher_", "interval_", "periodic_pub_", "rd_", "gen_", "dist_">>

\* the members generate_data() of the class reads or writes
GeneratorReads(kind) ==
    CASE kind = "camera" -> {"id_", "frame_id_"}
      [] kind = "lidar" -> {"id_", "interval_"}
      [] kind = "imu" -> {"id_", "gen_", "dist_"}

\* the implicit destructor destroys the members in the reverse order of
\* their declaration: the member that goes next when `gone` are gone
NextToDie(kind, gone) == Members(kind)[Len(Members(kind)) - gone]

\* the last shared_ptr to the sensor p goes away: its destructor begins
Destroy(p) ==
    /\ ~terminated /\ pc[Main] = "idle"
    /\ mgr.op = "none" /\ dtor.p = "none"
    /\ dtor' = [dtor EXCEPT !.p = p]
    /\ pc' = [pc EXCEPT ![Main] = "dtor"]
    /\ UNCHANGED <<pubVars, elapsed, main_ret, ok_returns, main_stop, mcalls>>
    /\ UNCHANGED <<owner, ticks, stopreq, handle, nlaunched, ctl, restarts>>
    /\ UNCHANGED <<sensors_, lookup, mgr, seqVars, subVars, wireVars>>

\* the destructor destroys the next member; for periodic_pub_ that is
\* ~PeriodicPublisher, whose worker_thread_ goes first: ~jthread requests a
\* stop and joins when the thread is joinable
DestroyMember ==
    /\ ~terminated /\ pc[Main] = "dtor"
    /\ IF dtor.gone = Len(Members(dtor.kind))
         THEN /\ pc' = [pc EXCEPT ![Main] = "idle"]
              /\ UNCHANGED <<dtor, stopreq>>
         ELSE IF NextToDie(dtor.kind, dtor.gone) = "periodic_pub_" /\ handle[dtor.p] # NoThread
                THEN /\ stopreq' = RequestedStop(stopreq, handle[dtor.p])
                     /\ pc' = [pc EXCEPT ![Main] = "dtor_join"]
                     /\ UNCHANGED dtor
                ELSE /\ dtor' = [dtor EXCEPT !.gone = @ + 1]
                     /\ UNCHANGED <<pc, stopreq>>
    /\ UNCHANGED <<pubVars, elapsed, main_ret, ok_returns, main_stop, mcalls>>
    /\ UNCHANGED <<owner, ticks, handle, nlaunched, ctl, restarts>>
    /\ UNCHANGED <<sensors_, lookup, mgr, seqVars, subVars, wireVars>>

\* the join inside ~jthread returns when the thread function has returned
DestroyJoin ==
    /\ ~terminated /\ pc[Main] = "dtor_join"
    /\ JoinWaits(handle[dtor.p])
    /\ handle' = [handle EXCEPT ![dtor.p] = NoThread]
    /\ dtor' = [dtor EXCEPT !.gone = @ + 1]
    /\ pc' = [pc EXCEPT ![Main] = "dtor"]
    /\ UNCHANGED <<pubVars, elapsed, main_ret, ok_returns, main_stop, mcalls>>
    /\ UNCHANGED <<owner, ticks, stopreq, nlaunched, ctl, restarts>>
    /\ UNCHANGED <<sensors_, lookup, mgr, seqVars, subVars, wireVars>>

\* Sensor objects of one of the three classes on a bound, write-ready
\* publisher.
InitDtor ==
    /\ InitTransport
    /\ sensors_ = [id \in {} |-> Null]
    /\ lookup = NoLookup
    /\ mgr = MgrIdle
    /\ dtor \in {[p |-> "none", kind |-> k, gone |-> 0] : k \in {"camera", "lidar", "imu"}}
    /\ bound = TRUE
    /\ attached = bound
    /\ writable = TRUE
    /\ send_timeout_ms = -1
    /\ InitSeqIdle
    /\ InitSub
    /\ receive_timeout_ms = -1
    /\ conflate = FALSE

\* start() and stop() are calls on a live object
StartLive(p) == dtor.p # p /\ StartLaunch(p)

StopLive(p) == dtor.p # p /\ StopCall(p)

NextDtor ==
    \/ \E w \in Workers : WorkerStep(w)
    \/ \E p \in PPs : StartLive(p)
    \/ StartAssign
    \/ StartJoin
    \/ \E p \in PPs : StopLive(p)
    \/ StopJoin
    \/ \E p \in PPs : Destroy(p)
    \/ DestroyMember
    \/ DestroyJoin

SpecDtor == InitDtor /\ [][NextDtor]_vars

\* ------------------------------------- Message<T>(payload), many threads

\* header_{Timestamp::now().nanoseconds(), next_sequence(), 0, 0}: the
\* constructor draws the next number of the counter of its payload type.
MessageNextSequence(c) ==
    /\ ctor[c] = <<>> /\ Len(made[c]) < MaxMade
    /\ ctor' = [ctor EXCEPT ![c] = <<next_seq[CounterOf(seq_type[c])]>>]
    /\ next_seq' = [next_seq EXCEPT ![CounterOf(seq_type[c])] = SeqNext(@)]
    /\ UNCHANGED <<seq_type, made, buffer, packed, data, decoded, pubVars, callVars, ppVars, subVars, wireVars>>

\* The constructor returns; the thread keeps header().sequence_number.
MessageConstructed(c) ==
    /\ ctor[c] # <<>>
    /\ made' = [made EXCEPT ![c] = Append(@, ctor[c][1])]
    /\ ctor' = [ctor EXCEPT ![c] = <<>>]
    /\ UNCHANGED <<next_seq, seq_type, buffer, packed, data, decoded, pubVars, callVars, ppVars, subVars, wireVars>>

\* Each thread constructs MaxMade envelopes of one payload type, starting
\* from fresh counters.
InitSeq ==
    /\ InitTransport
    /\ InitMgrIdle
    /\ bound = FALSE
    /\ attached = bound
    /\ writable = TRUE
    /\ send_timeout_ms \in SendTimeouts
    /\ InitSub
    /\ receive_timeout_ms = -1
    /\ conflate = FALSE
    /\ seq_type \in [SeqThreads -> PayloadTypes]
    /\ ctor = [c \in SeqThreads |-> <<>>]
    /\ made = [c \in SeqThreads |-> <<>>]
    /\ InitCodecIdle

NextSeq ==
    \/ \E c \in SeqThreads : MessageNextSequence(c)
    \/ \E c \in SeqThreads : MessageConstructed(c)

SpecSeq == InitSeq /\ [][NextSeq]_vars

\* ------------------------------------------------------- SensorManager

\* a loop over sensors_ that ends after its first element
Registered_first(S) ==
    SubSeq(SelectSeq(<<"cam_front", "cam_rear", "imu_0">>, LAMBDA id : id \in S),
           1, IF Cardinality(S) >= 1 THEN 1 ELSE 0)

\* for (auto& [id, sensor] : sensors_): the registered sensors in the
\* ascending order of the keys of the std::map
Registered(S) == SelectSeq(<<"cam_front", "cam_rear", "imu_0">>, LAMBDA id : id \in S)

\* CameraSensor::is_active(): periodic_pub_.is_running()
is_active(id) == is_running(id)

\* start_all() is entered. (The call is taken while the threads it needs
\* can still be launched.)
StartAll ==
    /\ ~terminated /\ pc[Main] = "idle" /\ mgr.op = "none"
    /\ nlaunched + Cardinality(DOMAIN sensors_) <= MaxLaunches
    /\ mgr' = [op |-> "start_all", todo |-> Registered(DOMAIN sensors_), ret |-> "none"]
    /\ UNCHANGED <<pubVars, callVars, owner, ticks, stopreq, handle, nlaunched, ctl, restarts>>
    /\ UNCHANGED <<sensors_, lookup, dtor, seqVars, subVars, wireVars>>

\* sensor->start() of the next sensor: CameraSensor::start() calls
\* periodic_pub_.start()
StartAllNext ==
    /\ mgr.op = "start_all" /\ mgr.todo # <<>>
    /\ Launch(Head(mgr.todo))
    /\ mgr' = [mgr EXCEPT !.todo = Tail(@)]
    /\ UNCHANGED <<sensors_, lookup, dtor>>

\* stop_all() is entered.
StopAll ==
    /\ ~terminated /\ pc[Main] = "idle" /\ mgr.op = "none"
    /\ mgr.ret # "stop_all"
    /\ mgr' = [op |-> "stop_all", todo |-> Registered(DOMAIN sensors_), ret |-> "none"]
    /\ UNCHANGED <<pubVars, callVars, owner, ticks, stopreq, handle, nlaunched, ctl, restarts>>
    /\ UNCHANGED <<sensors_, lookup, dtor, seqVars, subVars, wireVars>>

\* sensor->stop() of the next sensor: periodic_pub_.stop() does nothing when
\* the thread is not joinable
StopAllNext ==
    /\ mgr.op = "stop_all" /\ mgr.todo # <<>>
    /\ ~terminated /\ pc[Main] = "idle"
    /\ IF handle[Head(mgr.todo)] # NoThread
         THEN RequestStop(Head(mgr.todo))
         ELSE /\ UNCHANGED <<pubVars, callVars, seqVars, subVars, wireVars>>
              /\ UNCHANGED <<owner, ticks, stopreq, handle, nlaunched, ctl, restarts>>
    /\ mgr' = [mgr EXCEPT !.todo = Tail(@)]
    /\ UNCHANGED <<sensors_, lookup, dtor>>

\* the loop over sensors_ is over: start_all() / stop_all() returns
MgrReturn ==
    /\ ~terminated /\ pc[Main] = "idle"
    /\ mgr.op # "none" /\ mgr.todo = <<>>
    /\ mgr' = [op |-> "none", todo |-> <<>>, ret |-> mgr.op]
    /\ UNCHANGED <<pubVars, callVars, owner, ticks, stopreq, handle, nlaunched, ctl, restarts>>
    /\ UNCHANGED <<sensors_, lookup, dtor, seqVars, subVars, wireVars>>

\* The sensors were registered with add_sensor before; their publisher's
\* transport is write-ready and raises no fault.
InitMgr ==
    /\ InitTransport
    /\ sensors_ \in {[id \in S |-> [id |-> id, obj |-> 1]] : S \in (SUBSET PPs) \ {{}}}
    /\ lookup = NoLookup
    /\ dtor = [p |-> "none", kind |-> "camera", gone |-> 0]
    /\ mgr = MgrIdle
    /\ bound \in BOOLEAN
    /\ attached = bound
    /\ writable = TRUE
    /\ send_timeout_ms = -1
    /\ InitSeqIdle
    /\ InitSub
    /\ receive_timeout_ms = -1
    /\ conflate = FALSE

NextMgr ==
    \/ \E w \in Workers : WorkerStep(w)
    \/ \E p \in PPs : StartLaunch(p)
    \/ StartAssign
    \/ StartJoin
    \/ \E p \in PPs : StopCall(p)
    \/ StopJoin
    \/ StartAll
    \/ StartAllNext
    \/ StopAll
    \/ StopAllNext
    \/ MgrReturn

\* every launched thread and the manager's caller (the steps that carry a
\* start_all() / stop_all() under way to its return) are scheduled again and
\* again
SpecMgr ==
    /\ InitMgr /\ [][NextMgr]_vars
    /\ WF_vars(StartAssign \/ StartJoin \/ StopJoin
                  \/ StartAllNext \/ StopAllNext \/ MgrReturn)
    /\ \A w \in Workers : WF_vars(WorkerStep(w))

\* ---------------------------- SensorManager::add_sensor / get_sensor

\* what the registry calls leave alone
registryRest ==
    <<pubVars, callVars, owner, ticks, stopreq, handle, nlaunched, ctl, restarts, mgr, dtor,
      seqVars, subVars, wireVars>>

\* an insert that keeps the stored instance when the key is present
MapInsert_keep(m, sensor) ==
    [k \in DOMAIN m \cup {sensor.id} |-> IF k \in DOMAIN m THEN m[k] ELSE sensor]

\* sensors_[sensor->id()] = std::move(sensor)
MapInsert(m, sensor) ==
    [k \in DOMAIN m \cup {sensor.id} |-> IF k = sensor.id THEN sensor ELSE m[k]]

\* add_sensor(sensor): if (sensor) sensors_[sensor->id()] = std::move(sensor)
AddSensor(sensor) ==
    /\ sensors_' = IF sensor # Null THEN MapInsert(sensors_, sensor) ELSE sensors_
    /\ lookup' = [op |-> "add_sensor", id |-> sensor.id, sensor |-> sensor, ret |-> <<>>]
    /\ UNCHANGED registryRest

\* get_sensor(id): sensors_.find(id); the stored pointer, or nullptr (an
\* empty result here)
GetSensor(id) ==
    /\ lookup' = [op |-> "get_sensor", id |-> id, sensor |-> Null,
                  ret |-> IF id \in DOMAIN sensors_ THEN <<sensors_[id]>> ELSE <<>>]
    /\ UNCHANGED <<sensors_, registryRest>>

\* get_all_sensors(): one push_back per entry of sensors_
GetAllSensors ==
    /\ lookup' = [op |-> "get_all_sensors", id |-> "", sensor |-> Null,
                  ret |-> [i \in 1..Len(Registered(DOMAIN sensors_)) |->
                              sensors_[Registered(DOMAIN sensors_)[i]]]]
    /\ UNCHANGED <<sensors_, registryRest>>

InitRegistry ==
    /\ InitTransport
    /\ InitMgrIdle
    /\ bound = FALSE
    /\ attached = bound
    /\ writable = TRUE
    /\ send_timeout_ms = -1
    /\ InitSeqIdle
    /\ InitSub
    /\ receive_timeout_ms = -1
    /\ conflate = FALSE

NextRegistry ==
    \/ \E sensor \in SensorObjects \cup {Null} : AddSensor(sensor)
    \/ \E id \in PPs \cup {"imu_0"} : GetSensor(id)
    \/ GetAllSensors

SpecRegistry == InitRegistry /\ [][NextRegistry]_vars

\* ------------------------------------ Message<T>::serialize / deserialize

otherVars == <<pubVars, callVars, ppVars, next_seq, seq_type, ctor, made, subVars, wireVars>>

\* message.serialize(buffer): the envelope is appended to the buffer
Serialize(e) ==
    /\ decoded = NoResult
    /\ Len(packed) < MaxPacked
    /\ buffer' = MessageSerialize(buffer, e)
    /\ packed' = Append(packed, [e |-> e, from |-> Len(buffer),
                                  to |-> Len(MessageSerialize(buffer, e))])
    /\ data' = <<>>
    /\ decoded' = NoResult
    /\ UNCHANGED otherVars

\* The caller takes n bytes of the buffer, from the start of the i-th
\* envelope, as the slice to decode: the envelope, a truncation of it, or
\* the envelope with what follows it. Truncations are tried on a buffer
\* that holds one envelope.
TakeSlice(i, n) ==
    /\ decoded = NoResult
    /\ i \in 1..Len(packed)
    /\ n \in 0..(Len(buffer) - packed[i].from)
    /\ Len(packed) = 1 \/ n \in {packed[i].to - packed[i].from, Len(buffer) - packed[i].from}
    /\ data' = SubSeq(buffer, packed[i].from + 1, packed[i].from + n)
    /\ decoded' = NoResult
    /\ UNCHANGED <<buffer, packed, otherVars>>

\* Corrupt input: the four bytes at a length prefix of a slice of the
\* buffer are replaced by another length.
Tamper(off, v) ==
    /\ decoded = NoResult
    /\ Len(packed) = 1
    /\ \E n \in 0..(Len(buffer) - packed[1].from) :
          data = SubSeq(buffer, packed[1].from + 1, packed[1].from + n)
    /\ off + U32Width <= Len(data)
    /\ data' = [k \in 1..Len(data) |->
                  IF k > off /\ k <= off + U32Width THEN U32Bytes(v)[k - off] ELSE data[k]]
    /\ decoded' = NoResult
    /\ UNCHANGED <<buffer, packed, otherVars>>

\* Message<T>::deserialize(data)
Deserialize(T) ==
    /\ decoded = NoResult
    /\ decoded' = [via |-> "deserialize", T |-> T, got |-> TRUE,
                   ret |-> IF MessageDeserialize(T, data).ok
                             THEN <<MessageDeserialize(T, data).value>> ELSE <<>>,
                   last |-> MessageDeserialize(T, data).last]
    /\ UNCHANGED <<buffer, packed, data, otherVars>>

\* subscriber.receive<T>(): receive_raw returned the bytes of data (got) or
\* nothing
ReceiveT(T, got) ==
    /\ decoded = NoResult
    /\ decoded' = [via |-> "receive", T |-> T, got |-> got,
                   ret |-> ReceiveTyped(T, IF got THEN <<data>> ELSE <<>>),
                   last |-> IF got THEN MessageDeserialize(T, data).last ELSE 0]
    /\ UNCHANGED <<buffer, packed, data, otherVars>>

\* the caller drops the result and goes on
Discard ==
    /\ decoded # NoResult
    /\ decoded' = NoResult
    /\ UNCHANGED <<buffer, packed, data, otherVars>>

InitCodec ==
    /\ InitTransport
    /\ InitMgrIdle
    /\ bound = FALSE
    /\ attached = bound
    /\ writable = TRUE
    /\ send_timeout_ms = -1
    /\ InitSub
    /\ receive_timeout_ms = -1
    /\ conflate = FALSE
    /\ seq_type = [c \in SeqThreads |-> "CameraFrameData"]
    /\ ctor = [c \in SeqThreads |-> <<>>]
    /\ made = [c \in SeqThreads |-> <<>>]
    \* bytes the caller's buffer holds before an envelope is serialized into it
    /\ buffer \in {<<>>, <<1, 2>>}
    /\ packed = <<>>
    /\ data = <<>>
    /\ decoded = NoResult

NextCodec ==
    \/ \E e \in Envelopes : Serialize(e)
    \/ \E i \in 1..MaxPacked, n \in 0..(MaxPacked * MaxEncodedLen) : TakeSlice(i, n)
    \* a length prefix (of sensor_id_ or of encoding) gets another value
    \/ \E off \in {HeaderSize}
                    \cup {HeaderSize + U32Width + Len(e.payload.sensor_id_) + 20 : e \in Envelopes},
          v \in {0, 1, 6, Radix ^ U32Width - U32Width, Radix ^ U32Width - 1} : Tamper(off, v)
    \/ \E T \in CodecTypes : Deserialize(T)
    \/ \E T \in CodecTypes, got \in BOOLEAN : ReceiveT(T, got)
    \/ Discard

SpecCodec == InitCodec /\ [][NextCodec]_vars

\* ================================================================ claims

\* The loops launched by the start() calls made on PeriodicPublisher p.
LoopsOf(p) == {w \in Workers : owner[w] = p}

\* The stop() or the assignment that requested w's stop has returned.
StopReturned(w) ==
    /\ stopreq[w]
    /\ ~(pc[Main] \in {"stop_join", "start_join"} /\ handle[ctl.p] = w)

\* C1: start() on a PeriodicPublisher that is running launches no second loop
\* and leaves worker_thread_ as it is: while worker_thread_ of p is joinable,
\* no step adds a loop of p or changes the handle of p, except stop().
C1_StartWhileRunningIsNoOp ==
    [][\A p \in PPs :
         (handle[p] # NoThread /\ pc[Main] \in {"idle", "start_assign", "start_join"})
            => /\ \A w \in Workers : owner'[w] = p => owner[w] = p
               /\ (pc'[Main] # "stop_join" => handle'[p] = handle[p])]_vars

\* C2: once start() was called on a running PeriodicPublisher and a later stop()
\* has returned, none of the loops that PeriodicPublisher ever launched is alive.
C2_NoStrandedLoop ==
    \A p \in PPs :
        (pc[Main] = "idle" /\ handle[p] = NoThread)
            => \A w \in LoopsOf(p) : pc[w] \in {"unborn", "done"}

\* start(), start(), stop() on one PeriodicPublisher have returned.
C2_Witness ==
    /\ restarts >= 1 /\ pc[Main] = "idle"
    /\ \E p \in PPs : handle[p] = NoThread /\ Cardinality(LoopsOf(p)) = 2

\* C3: when stop() has returned, the loop it stopped has exited, and from then
\* on that loop takes no step: no generator call, no publish_raw, no increment
\* of messages_sent.
C3_StopJoinsLoop ==
    /\ [](\A w \in Workers : StopReturned(w) => pc[w] = "done")
    /\ [][\A w \in Workers : StopReturned(w) => pc'[w] = pc[w]]_vars

\* stop() has returned for a loop that had published.
C3_Witness ==
    /\ pc[Main] = "idle" /\ messages_sent >= 1
    /\ \E w \in Workers : StopReturned(w) /\ handle[owner[w]] = NoThread

\* The numbers drawn so far by the constructors of payload type T, one entry
\* per construction (finished or under way).
Drawn(T) ==
    {x \in SeqThreads \X (1..MaxMade) :
        /\ seq_type[x[1]] = T
        /\ \/ x[2] <= Len(made[x[1]])
           \/ x[2] = Len(made[x[1]]) + 1 /\ ctor[x[1]] # <<>>}

NumberOf(x) ==
    IF x[2] <= Len(made[x[1]]) THEN made[x[1]][x[2]] ELSE ctor[x[1]][1]

\* C4: for every payload type, the sequence numbers the concurrent
\* constructions of that type have obtained are pairwise different and are
\* exactly 0 .. k-1 for k constructions; with N threads of one type that built
\* M envelopes each they are exactly 0 .. N*M-1.
C4_SequenceNumbersExact ==
    \A T \in PayloadTypes :
       /\ \A x, y \in Drawn(T) : x # y => NumberOf(x) # NumberOf(y)
       /\ {NumberOf(x) : x \in Drawn(T)} = 0..(Cardinality(Drawn(T)) - 1)

\* all threads used one payload type, all finished, and the draws interleaved
C4_Witness ==
    /\ \A c \in SeqThreads : seq_type[c] = "ImuData" /\ Len(made[c]) = MaxMade
    /\ {made[c][i] : c \in SeqThreads, i \in 1..MaxMade}
          = 0..(MaxSeqThreads * MaxMade - 1)
    /\ made[1][1] > made[2][1] /\ made[1][MaxMade] > made[2][MaxMade]

\* C5: at most one publish_raw is in flight on the ZmqPublisher, and the frames
\* pending on its socket belong to one call.
C5_OnePublishInFlight ==
    /\ Cardinality({c \in Callers : InPublish(c)}) <= 1
    /\ \A i, j \in 1..Len(partial) : partial[i].by = partial[j].by

\* C6: outside a start() in progress, is_running() is true iff a loop of the
\* PeriodicPublisher is active and has not been cancelled.
C6_IsRunningIffLoopActive ==
    (~terminated /\ pc[Main] \notin {"start_assign", "start_join"})
        => \A p \in PPs : is_running(p) <=>
                 \E w \in LoopsOf(p) : pc[w] \notin {"unborn", "done"} /\ ~stopreq[w]

\* start(), stop(), start() have returned: running again.
C6_Witness ==
    /\ pc[Main] = "idle" /\ restarts = 0 /\ ~terminated
    /\ \E p \in PPs : is_running(p) /\ \E w \in LoopsOf(p) : pc[w] = "done"

Running == \E p \in PPs : is_running(p)

\* C7: after start() on a bound, write-ready publisher every finished loop
\* iteration has added one to the send counter, and while a loop is running
\* and has iterations left the counter eventually increases again.
C7_SendCounterKeepsIncreasing ==
    /\ [](messages_sent + Cardinality({w \in Workers : InPublish(w)}) = ticks)
    /\ \A n \in 0..MaxTicks :
          (Running /\ ticks < MaxTicks /\ messages_sent = n)
             ~> (messages_sent > n \/ ~Running)

\* C7 (amended): the same, for a send timeout other than 0; with
\* send_timeout_ms = 0 publish_raw returns failure on its first iteration.
C7_SendCounterKeepsIncreasingNonzeroTimeout ==
    /\ [](send_timeout_ms # 0 => messages_sent + Cardinality({w \in Workers : InPublish(w)}) = ticks)
    /\ \A n \in 0..MaxTicks :
          (send_timeout_ms # 0 /\ Running /\ ticks < MaxTicks /\ messages_sent = n)
             ~> (messages_sent > n \/ ~Running)

\* a loop never stopped has sent on every tick
C7_Witness ==
    /\ send_timeout_ms # 0 /\ Running /\ restarts = 0
    /\ \A w \in Workers : ~stopreq[w]
    /\ ticks = MaxTicks /\ messages_sent = MaxTicks

\* C8: a failed publish does not end the loop: the process keeps running and
\* a loop exits only after its stop had been requested.
C8_FailedPublishNotFatal ==
    /\ ~terminated
    /\ \A w \in Workers : pc[w] = "done" => stopreq[w]

\* C9: a publish_raw entered on a publisher that is not bound, and a
\* receive_raw entered on a subscriber that is not connected, has returned
\* failure by the end of the entering step: the poll loop is not entered,
\* no frame is sent or taken, no time passes and the counters keep their
\* values; the poll loops run only while bound / connected.
C9_NotBoundFailsImmediately ==
    /\ [](InPublish(Main) => bound)
    /\ [](pc[Main] \in {"rloop", "recv"} => connected)
    /\ [][/\ (mcalls' = mcalls + 1 /\ ~bound) =>
               /\ pc'[Main] = "idle" /\ main_ret' = "fail"
               /\ messages_sent' = messages_sent /\ partial' = partial
               /\ elapsed' = elapsed /\ ok_returns' = ok_returns
          /\ (rcalls' = rcalls + 1 /\ ~connected) =>
               /\ pc'[Main] = "idle" /\ sub_ret' = "nullopt"
               /\ messages_received' = messages_received /\ inbox' = inbox
               /\ elapsed' = elapsed]_vars

\* both calls were made and failed, with the transport write-ready and a
\* message waiting on the socket
C9_Witness ==
    /\ ~bound /\ writable /\ mcalls >= 1 /\ main_ret = "fail"
    /\ ~connected /\ inbox # <<>> /\ rcalls >= 1 /\ sub_ret = "nullopt"
    /\ messages_sent = 0 /\ messages_received = 0 /\ pc[Main] = "idle"

\* C10: messages_sent equals the number of publish_raw calls that returned
\* true, and every step leaves it unchanged or adds exactly 1.
C10_SentCountsSuccesses ==
    /\ [](messages_sent = ok_returns)
    /\ [][messages_sent' = messages_sent \/ messages_sent' = messages_sent + 1]_vars

\* Two loops have each completed one successful publish_raw.
C10_Witness ==
    /\ messages_sent = 2 /\ ticks = 2
    /\ pc[1] = "sleep" /\ pc[2] = "sleep"

\* C11: when the stop has been requested before publish_raw starts or before
\* an iteration of its poll loop, the next step of the call is the return of
\* failure: no further poll, no frame sent, messages_sent unchanged; and a
\* poll slice never lasts more than 100 ms.
C11_CancelledPublishFails ==
    [][/\ (pc[Main] = "loop" /\ main_stop /\ pc'[Main] # "loop") =>
             /\ pc'[Main] = "idle" /\ main_ret' = "fail"
             /\ messages_sent' = messages_sent /\ partial' = partial
             /\ ok_returns' = ok_returns
       /\ (pc[Main] = "loop" /\ main_stop) => elapsed'[Main] <= elapsed[Main]
       /\ (pc[Main] = "loop" /\ pc'[Main] = "loop") =>
             elapsed'[Main] - elapsed[Main] <= PollSliceMs]_vars

\* a cancelled call has returned failure on a bound, write-ready publisher
\* that waits without timeout
C11_Witness ==
    /\ bound /\ writable /\ send_timeout_ms < 0
    /\ mcalls = 1 /\ main_stop /\ pc[Main] = "idle" /\ main_ret = "fail"
    /\ messages_sent = 0 /\ partial = <<>>

\* C12: with send_timeout_ms = T >= 0 the poll loop of publish_raw never
\* waits past T: a slice lasts at most min(100, T - elapsed), and once T has
\* elapsed the call returns failure with nothing sent and messages_sent
\* unchanged.
C12_TimeoutBoundsPublish ==
    /\ []((pc[Main] = "loop" /\ send_timeout_ms >= 0)
            => elapsed[Main] <= send_timeout_ms)
    /\ [][(pc[Main] = "loop" /\ send_timeout_ms >= 0) =>
            /\ pc'[Main] = "loop" =>
                  /\ elapsed'[Main] - elapsed[Main] <= PollSliceMs
                  /\ elapsed'[Main] - elapsed[Main] <= send_timeout_ms - elapsed[Main]
            /\ (elapsed[Main] >= send_timeout_ms /\ pc'[Main] # "loop") =>
                  /\ pc'[Main] = "idle" /\ main_ret' = "fail"
                  /\ messages_sent' = messages_sent /\ partial' = partial
            /\ elapsed[Main] >= send_timeout_ms => pc'[Main] # "send_topic"]_vars

\* the transport was never write-ready and the whole timeout of 150 ms has
\* been spent in a slice of 100 ms and one of 50 ms
C12_Witness ==
    /\ bound /\ ~writable /\ ~main_stop /\ send_timeout_ms = 150
    /\ pc[Main] = "loop" /\ elapsed[Main] = 150
    /\ messages_sent = 0 /\ partial = <<>>

\* C13: with a negative timeout the poll loop is left with a failure result
\* only when the stop was requested: publish_raw and receive_raw on a
\* transport that is not ready keep polling (a fault raised by the poll is
\* not a result).
C13_NegativeTimeoutWaits ==
    [][/\ (send_timeout_ms < 0 /\ pc[Main] = "loop") =>
             /\ (pc'[Main] = "idle" /\ main_ret' = "fail") => main_stop
             /\ (~writable /\ ~main_stop /\ main_ret' # "fault")
                    => pc'[Main] = "loop"
       /\ (receive_timeout_ms < 0 /\ pc[Main] = "rloop") =>
             /\ (pc'[Main] = "idle" /\ sub_ret' = "nullopt") => main_stop
             /\ (inbox = <<>> /\ ~main_stop /\ sub_ret' # "fault")
                    => pc'[Main] = "rloop"]_vars

\* both calls waited on a transport that was not ready and returned on the
\* stop request
C13_Witness ==
    /\ send_timeout_ms < 0 /\ receive_timeout_ms < 0
    /\ bound /\ ~writable /\ mcalls = 1 /\ main_ret = "fail"
    /\ connected /\ inbox = <<>> /\ rcalls = 1 /\ sub_ret = "nullopt"
    /\ messages_sent = 0 /\ messages_received = 0 /\ pc[Main] = "idle"

\* C14: every message the publisher puts on the wire has exactly two frames,
\* the topic and then the data, and messages_sent is incremented only when
\* the data frame completes a message begun by this call's topic frame: no
\* topic frame is transmitted without its data frame.
C14_TwoFramesAllOrNothing ==
    /\ [](\A i \in 1..Len(inbox) : Len(inbox[i]) = 2)
    /\ [][messages_sent' # messages_sent => (Len(partial) = 1 /\ partial' = <<>>)]_vars

\* a is b with some elements left out, the order kept
IsSubSeq(a, b) ==
    \E f \in [1..Len(a) -> 1..Len(b)] :
        /\ \A i \in 1..Len(a) : b[f[i]] = a[i]
        /\ \A i, j \in 1..Len(a) : i < j => f[i] < f[j]

C16_FailedEndpointFailsFast ==
    [][/\ (Bind(FALSE) \/ Connect(FALSE)) => ~bound'
       /\ SubConnect(FALSE) => (~connected' /\ ~is_connected')
       /\ (~bound /\ mcalls' # mcalls) =>
             /\ pc'[Main] = "idle" /\ main_ret' = "fail"
             /\ messages_sent' = messages_sent /\ partial' = partial /\ inbox' = inbox
       /\ (~connected /\ \E p \in Prefixes, ok \in BOOLEAN : Subscribe(p, ok)) =>
             /\ op_ret' = "false"
             /\ subscriptions' = subscriptions /\ filter' = filter
       /\ (~connected /\ rcalls' # rcalls) =>
             /\ pc'[Main] = "idle" /\ sub_ret' = "nullopt"
             /\ messages_received' = messages_received /\ inbox' = inbox]_vars

\* Both endpoints worked, then a later bind() and a later connect() failed;
\* the publish_raw, subscribe and receive_raw that followed returned failure
\* although a matching message waits on the socket.
C16_Witness ==
    /\ ~bound /\ messages_sent = 1 /\ mcalls = 2 /\ main_ret = "fail"
    /\ ~connected /\ linked /\ inbox # <<>>
    /\ op_ret = "false" /\ rcalls = 1 /\ sub_ret = "nullopt"
    /\ messages_received = 0

\* C17: a message published on topic t is delivered to a connected
\* subscriber (whose queue has room) if and only if some prefix in the
\* subscriber's current subscription set is a prefix of t.
C17_DeliveredIffPrefixMatches ==
    [][(messages_sent' # messages_sent /\ connected /\ Len(inbox) < MaxInbox) =>
          ((Len(inbox') = Len(inbox) + 1) <=>
             \E p \in subscriptions : IsPrefix(p, pub_msg.topic))]_vars

\* C18: subscribe(p) on a subscriber that is not connected returns false and
\* leaves the subscription set as it was; on a connected subscriber whose
\* socket accepts the option it returns true and p is in the set, once, also
\* when p was in the set already; a message is queued for the subscriber at
\* most once, and exactly once when a subscribed prefix matches and the
\* queue has room, however often the prefix was subscribed.
C18_SubscribeIdempotent ==
    /\ [](Len(inbox) + messages_received <= messages_sent)
    /\ [][\A p \in Prefixes :
            /\ (~connected /\ \E ok \in BOOLEAN : Subscribe(p, ok)) =>
                  (op_ret' = "false" /\ subscriptions' = subscriptions)
            /\ (connected /\ Subscribe(p, TRUE)) =>
                  /\ op_ret' = "true"
                  /\ subscriptions' = subscriptions \cup {p}
                  /\ p \in subscriptions => subscriptions' = subscriptions
            /\ (messages_sent' # messages_sent /\ Len(partial) = 1) =>
                  /\ Len(inbox') <= Len(inbox) + 1
                  /\ (filter[p] > 1 /\ IsPrefix(p, pub_msg.topic) /\ Len(inbox) < MaxInbox) =>
                        inbox' = Append(inbox, <<pub_msg.topic, pub_msg.data>>)]_vars

\* "camera" was subscribed twice with success and holds one entry in the
\* set; the message published on "camera_rgb" is queued once.
C18_Witness ==
    /\ connected /\ op_ret = "true"
    /\ subscriptions = {<<"camera">>}
    /\ filter[<<"camera">>] = 2 /\ filter[<<>>] = 0
    /\ messages_sent = 1 /\ messages_received = 0
    /\ inbox = << << <<"camera", "_rgb">>, <<"d1">> >> >>

\* C19: unsubscribe(p) returns false when the subscriber is not connected
\* and when p is not in the subscription set, and then neither the set nor
\* the socket's filter changes; when p is in the set of a connected
\* subscriber whose socket accepts the option it returns true and p is no
\* longer in the set.
C19_UnsubscribeChecksSet ==
    [][\A p \in Prefixes :
         /\ ((~connected \/ p \notin subscriptions) /\ \E ok \in BOOLEAN : Unsubscribe(p, ok)) =>
               /\ op_ret' = "false"
               /\ subscriptions' = subscriptions /\ filter' = filter
         /\ (connected /\ p \in subscriptions /\ Unsubscribe(p, TRUE)) =>
               /\ op_ret' = "true"
               /\ subscriptions' = subscriptions \ {p}
               /\ p \notin subscriptions']_vars

\* the last prefix of the set was unsubscribed with success
C19_Witness ==
    /\ connected /\ op_ret = "true" /\ subscriptions = {}
    /\ \A p \in Prefixes : filter[p] = 0

\* C20: what receive_raw returns is the data of a message the publisher sent
\* with success, never a topic; messages_received goes up by one in exactly
\* the steps in which receive_raw returns data and is unchanged otherwise.
C20_ReceiveReturnsPublishedData ==
    /\ [](\A i \in 1..Len(received) : \E j \in 1..Len(published) : received[i] = published[j])
    /\ [][messages_received' = messages_received +
            (IF pc[Main] = "recv" /\ sub_ret' = "data" THEN 1 ELSE 0)]_vars

\* C21: with receive_timeout_ms = T >= 0 and no message arriving, receive_raw
\* returns "no message" for the timeout only at a clock reading of at least
\* T and at most T plus one poll slice; while it waits the clock reading
\* stays within T, every turn of the loop either returns or moves the clock
\* on, and the call does not stay in its loop for ever.
C21_ReceiveTimeoutBounds ==
    /\ [][(pc[Main] = "rloop" /\ receive_timeout_ms >= 0) =>
            /\ \A late \in BOOLEAN :
                  (ReceiveLoop(late) /\ pc'[Main] = "idle" /\ ~main_stop) =>
                      /\ sub_ret' = "nullopt"
                      /\ ReceiveClock(late) >= receive_timeout_ms
                      /\ ReceiveClock(late) <= receive_timeout_ms + PollSliceMs
            /\ pc'[Main] = "rloop" => elapsed'[Main] <= receive_timeout_ms
            /\ (inbox = <<>> /\ \E late \in BOOLEAN : ReceiveLoop(late)) =>
                  (pc'[Main] = "idle" \/ elapsed'[Main] > elapsed[Main])]_vars
    /\ (pc[Main] = "rloop" /\ receive_timeout_ms >= 0) ~> (pc[Main] # "rloop")

\* a receive_raw on a connected subscriber with a timeout of 150 ms and an
\* empty socket has returned "no message"
C21_Witness ==
    /\ connected /\ receive_timeout_ms = 150 /\ inbox = <<>> /\ ~main_stop
    /\ rcalls = 1 /\ pc[Main] = "idle" /\ sub_ret = "nullopt"
    /\ messages_received = 0 /\ mcalls = 0

\* d is a proper prefix of the bytes of a serialized envelope of type T
IsTruncation(T, d) ==
    \E i \in 1..Len(packed) :
        /\ packed[i].e.T = T
        /\ Len(d) < packed[i].to - packed[i].from
        /\ d = SubSeq(buffer, packed[i].from + 1, packed[i].from + Len(d))

\* C22: receive<T> returns none when receive_raw returned none and when the
\* bytes do not decode as an envelope of type T (fewer than 16 bytes, or a
\* truncated payload); it returns an envelope only when the raw receive gave
\* bytes and their decode succeeded, and then that envelope. Both failures
\* give the caller the same value.
C22_ReceiveTypedNoneOnFailure ==
    decoded.via = "receive" =>
        /\ ~decoded.got => decoded.ret = <<>>
        /\ (decoded.got /\ Len(data) < HeaderSize) => decoded.ret = <<>>
        /\ (decoded.got /\ IsTruncation(decoded.T, data)) => decoded.ret = <<>>
        /\ (decoded.got /\ ~MessageDeserialize(decoded.T, data).ok) => decoded.ret = <<>>
        /\ decoded.ret # <<>> =>
              /\ decoded.got /\ MessageDeserialize(decoded.T, data).ok
              /\ decoded.ret = <<MessageDeserialize(decoded.T, data).value>>

\* receive_raw returned a whole header and a truncated payload, and
\* receive<T> returned none
C22_Witness ==
    /\ decoded.via = "receive" /\ decoded.got /\ decoded.ret = <<>>
    /\ Len(data) > HeaderSize /\ IsTruncation(decoded.T, data)

\* the slice that holds exactly the i-th serialized envelope
ExactSlice(i) == SubSeq(buffer, packed[i].from + 1, packed[i].to)

\* C23: For each payload type and every envelope -- any header, empty or
\* long strings, any float bit pattern -- serializing it into an empty
\* buffer and deserializing the result as that type succeeds and yields
\* the same header and the same payload, bit for bit.
C23_RoundTrip ==
    (/\ decoded.via = "deserialize"
     /\ packed # <<>>
     /\ packed[1].from = 0
     /\ data = ExactSlice(1)
     /\ decoded.T = packed[1].e.T) => decoded.ret = <<packed[1].e>>

C23_Witness ==
    /\ decoded.via = "deserialize"
    /\ packed # <<>>
    /\ packed[1].from = 0
    /\ data = ExactSlice(1)
    /\ decoded.T = "ImuData"
    /\ packed[1].e.T = "ImuData"
    /\ packed[1].e.payload.sensor_id_ = LongString
    /\ packed[1].e.payload.accel_x = Fill(4, MaxByte)
    /\ decoded.ret = <<packed[1].e>>

\* C24: Deserializing fails on every buffer shorter than the 16-byte header
\* and, for each of the three payload types, on every buffer of exactly 16
\* bytes.
C24_ShortBufferFails ==
    (decoded.via = "deserialize" /\ Len(data) <= HeaderSize) => decoded.ret = <<>>

C24_Witness ==
    /\ decoded.via = "deserialize"
    /\ decoded.T = "LidarScanData"
    /\ Len(data) = HeaderSize
    /\ data # Fill(HeaderSize, 0)
    /\ decoded.ret = <<>>

\* the sensor_id length a slice declares, and the place of the encoding
\* length that follows from it
IdLen(d) == U32Value(Read(d, HeaderSize, U32Width))
EncOff(d) == HeaderSize + U32Width + IdLen(d) + 20

\* C25: Deserializing never reads a byte outside the slice it was given,
\* whatever the slice holds and however long it is; a length prefix larger
\* than what is left of the slice, 2^32-1 included, makes the decode fail.
C25_NoReadOutsideSlice ==
    decoded.got =>
        /\ decoded.last <= Len(data)
        /\ (/\ Len(data) >= HeaderSize + U32Width
            /\ IdLen(data) > Len(data) - HeaderSize - U32Width) => decoded.ret = <<>>
        /\ (/\ decoded.T = "CameraFrameData"
            /\ Len(data) >= HeaderSize + U32Width
            /\ Len(data) >= EncOff(data) + U32Width
            /\ U32Value(Read(data, EncOff(data), U32Width))
                  > Len(data) - EncOff(data) - U32Width) => decoded.ret = <<>>

C25_Witness ==
    /\ decoded.via = "deserialize"
    /\ decoded.T = "CameraFrameData"
    /\ Len(data) >= EncOff(data) + U32Width
    /\ IdLen(data) = Len(LongString)
    /\ U32Value(Read(data, EncOff(data), U32Width)) = Radix ^ U32Width - 1
    /\ decoded.ret = <<>>
    /\ decoded.last = EncOff(data) + U32Width

\* the envelope the last serialize call put in the buffer
LastPacked == packed[Len(packed)]

\* C26: Serializing into a buffer that holds k bytes leaves those k bytes
\* as they are and appends the 16 header bytes followed by the payload's
\* bytes, nothing else. Of two envelopes serialized one after the other
\* into one buffer, the slice up to the first length deserializes to the
\* first and the slice from there to the end to the second.
C26_SerializeAppends ==
    /\ [][Len(packed') = Len(packed) + 1 =>
            /\ SubSeq(buffer', 1, Len(buffer)) = buffer
            /\ LastPacked'.from = Len(buffer)
            /\ LastPacked'.to = Len(buffer')
            /\ SubSeq(buffer', Len(buffer) + 1, Len(buffer'))
                 = HeaderSerialize(<<>>, LastPacked'.e.header)
                     \o PayloadSerialize(<<>>, LastPacked'.e.T, LastPacked'.e.payload)
            /\ Len(HeaderSerialize(<<>>, LastPacked'.e.header)) = HeaderSize]_vars
    /\ [](/\ decoded.via = "deserialize"
          /\ Len(packed) = 2
          /\ \/ data = ExactSlice(1) /\ decoded.T = packed[1].e.T
             \/ data = ExactSlice(2) /\ decoded.T = packed[2].e.T
          => \/ data = ExactSlice(1) /\ decoded.ret = <<packed[1].e>>
             \/ data = ExactSlice(2) /\ decoded.ret = <<packed[2].e>>)

C26_Witness ==
    /\ decoded.via = "deserialize"
    /\ Len(packed) = 2
    /\ packed[1].from = 0
    /\ packed[1].e.T = "CameraFrameData"
    /\ packed[2].e.T = "LidarScanData"
    /\ packed[2].e.payload.sensor_id_ = LongString
    /\ data = SubSeq(buffer, packed[1].to + 1, Len(buffer))
    /\ decoded.ret = <<packed[2].e>>

C28_NoFaultPropagates ==
    /\ main_ret # "fault"
    /\ sub_ret # "fault"
    /\ op_ret \in {"none", "true", "false"}
    /\ ~terminated

\* C29: A subscriber configured with conflate = true holds at most one
\* message that it has not yet handed out.
C29_ConflateKeepsOne == conflate => Len(inbox) <= 1

\* C30: When start_all() returns every registered sensor reports active,
\* and when stop_all() returns every registered sensor reports inactive,
\* whether the sensor had never been started, was running or had been
\* stopped when the call was made; and a call that was made returns.
C30_StartAllStopAll ==
    /\ [][MgrReturn =>
            /\ mgr.op = "start_all" => \A id \in DOMAIN sensors_ : is_active(id)'
            /\ mgr.op = "stop_all" => \A id \in DOMAIN sensors_ : ~is_active(id)']_vars
    /\ (mgr.op # "none") ~> (mgr.op = "none")

\* start_all() has returned on a registry whose sensor was running when the
\* call was made: the sensor's loop was replaced and the sensor is active
C30_Witness ==
    /\ mgr.op = "none" /\ mgr.ret = "start_all"
    /\ DOMAIN sensors_ = {"cam_rear"}
    /\ restarts = 1 /\ nlaunched = 2
    /\ pc[1] = "done" /\ handle["cam_rear"] = 2
    /\ is_active("cam_rear")

\* C31: The registry holds one sensor per identifier, stored under the
\* sensor's own identifier. add_sensor of a sensor whose identifier is
\* present replaces the stored instance and leaves the other entries as
\* they are; add_sensor of a null sensor changes nothing. get_sensor
\* returns the instance stored under the identifier, the one added last,
\* and nothing for an identifier that is not registered; get_all_sensors
\* returns one entry per registered identifier.
C31_OneSensorPerId ==
    /\ [](\A id \in DOMAIN sensors_ : sensors_[id].id = id)
    /\ [](lookup.op = "add_sensor" /\ lookup.sensor # Null
            => lookup.id \in DOMAIN sensors_ /\ sensors_[lookup.id] = lookup.sensor)
    /\ [](lookup.op = "get_sensor"
            => lookup.ret = IF lookup.id \in DOMAIN sensors_
                              THEN <<sensors_[lookup.id]>> ELSE <<>>)
    /\ [](lookup.op = "get_all_sensors"
            => /\ Len(lookup.ret) = Cardinality(DOMAIN sensors_)
               /\ \A id \in DOMAIN sensors_ :
                     Cardinality({i \in 1..Len(lookup.ret) : lookup.ret[i].id = id}) = 1
               /\ \A i \in 1..Len(lookup.ret) : lookup.ret[i] = sensors_[lookup.ret[i].id])
    /\ [][\A sensor \in SensorObjects \cup {Null} : AddSensor(sensor) =>
            /\ sensor = Null => sensors_' = sensors_
            /\ sensor # Null =>
                 /\ DOMAIN sensors_' = DOMAIN sensors_ \cup {sensor.id}
                 /\ \A id \in DOMAIN sensors_ \ {sensor.id} : sensors_'[id] = sensors_[id]
                 /\ sensors_'[sensor.id] = sensor
                 /\ Cardinality(DOMAIN sensors_') =
                       Cardinality(DOMAIN sensors_) + (IF sensor.id \in DOMAIN sensors_ THEN 0 ELSE 1)]_vars

\* the registry holds two sensors; the instance stored first under
\* "cam_front" was replaced by a second one, which get_sensor returns
C31_Witness ==
    /\ lookup.op = "get_sensor" /\ lookup.id = "cam_front"
    /\ lookup.ret = <<[id |-> "cam_front", obj |-> 2]>>
    /\ DOMAIN sensors_ = {"cam_front", "imu_0"}

IsStrictPrefix(d, b) == Len(d) < Len(b) /\ d = SubSeq(b, 1, Len(d))

\* C33: for each of the three payload types, deserializing a strict prefix of
\* the serialized bytes of an envelope of that type fails, wherever the cut
\* falls: in the header, in a length prefix, in a string or in the fixed
\* fields.
C33_StrictPrefixFails ==
    decoded.via = "deserialize" =>
        \A e \in Envelopes :
            (e.T = decoded.T /\ IsStrictPrefix(data, MessageSerialize(<<>>, e)))
                => decoded.ret = <<>>

\* the serialized camera envelope with the long strings, cut one byte before
\* its end, was deserialized as a camera envelope and gave none
C33_Witness ==
    /\ decoded.via = "deserialize" /\ decoded.T = "CameraFrameData" /\ decoded.ret = <<>>
    /\ \E e \in Envelopes :
          /\ e.T = "CameraFrameData" /\ e.payload.sensor_id_ = LongString
          /\ Len(data) = Len(MessageSerialize(<<>>, e)) - 1
          /\ IsStrictPrefix(data, MessageSerialize(<<>>, e))

\* C34: start() and stop() of one sensor change the active state of that
\* sensor only: for two distinct sensors that share one publisher and one
\* registry, no step of start() or stop() of the one changes is_active() of
\* the other.
C34_IndependentControl ==
    [][\A p \in PPs : \A q \in PPs \ {p} :
          \* the call and the steps of the thread inside it
          (\/ StartLaunch(p)
           \/ StopCall(p)
           \/ (ctl.p = p /\ mgr.op = "none" /\ (StartAssign \/ StartJoin \/ StopJoin)))
             => (is_active(q)' <=> is_active(q))]_vars

\* both cameras are registered and were started, cam_front was stopped, and
\* cam_rear is still active
C34_Witness ==
    /\ DOMAIN sensors_ = PPs
    /\ mgr = MgrIdle /\ mgr.ret = "none"
    /\ pc[Main] = "idle"
    /\ owner[1] = "cam_front" /\ stopreq[1] /\ pc[1] = "done"
    /\ ~is_active("cam_front")
    /\ handle["cam_rear"] = 2 /\ is_active("cam_rear")

\* C35: at most one background loop executes per PeriodicPublisher at any
\* time, whatever the sequence of start() and stop() calls, start() while
\* running included: no two threads launched by the same PeriodicPublisher
\* are inside their loops together, so its generator and its publish call
\* are never executed by two loops at once.
C35_OneLoopPerPublisher ==
    \* a thread is inside an iteration when it is in generator_() or in
    \* publisher_.publish
    LET inLoop == {w \in Workers : owner[w] # "none"
                      /\ pc[w] \in {"gen", "loop", "send_topic", "send_data"}}
    IN \A v \in inLoop : \A w \in inLoop \ {v} : owner[v] # owner[w]

\* C36: a stop() called on a running PeriodicPublisher eventually returns,
\* for every send timeout and every state of the transport, a negative
\* send_timeout_ms with a transport that is not write-ready included: the
\* publish in flight sees the cancellation and the join ends.
C36_StopReturns == (pc[Main] = "stop_join") ~> (pc[Main] = "idle")

\* C37: the filter of the socket always agrees with the local subscription
\* set: a prefix has a filter instance on the socket exactly when it is in
\* the set, so after subscribe(p), subscribe(p) and one successful
\* unsubscribe(p) the prefix p is in neither and messages matched only by p
\* are no longer delivered.
C37_FilterAgreesWithSet ==
    \A p \in Prefixes : (filter[p] > 0) <=> (p \in subscriptions)

\* C38: the bound flag of the publisher is always the outcome of its most
\* recent bind() or connect(), and the connected flag of the subscriber the
\* outcome of its most recent connect(): only these calls change the flags,
\* each sets its flag to its own outcome, and a flag that is set implies an
\* endpoint on the socket but not the other way round. After a successful
\* bind() and a failed one the socket still holds its endpoint, and
\* publish_raw returns failure at once as not bound; receive_raw likewise
\* returns none at once on a subscriber whose later connect() failed.
C38_FlagIsLastOutcome ==
    /\ [](bound => attached)
    /\ [](connected => linked)
    /\ [][/\ \A ok \in BOOLEAN :
               /\ (Bind(ok) \/ Connect(ok)) => (bound' = ok /\ attached' = (attached \/ ok))
               /\ SubConnect(ok) => (connected' = ok /\ linked' = (linked \/ ok))
          /\ bound' # bound => \E ok \in BOOLEAN : Bind(ok) \/ Connect(ok)
          /\ connected' # connected => \E ok \in BOOLEAN : SubConnect(ok)
          /\ (attached /\ ~bound /\ mcalls' = mcalls + 1) =>
                /\ pc'[Main] = "idle" /\ main_ret' = "fail"
                /\ messages_sent' = messages_sent /\ partial' = partial
          /\ (linked /\ ~connected /\ rcalls' = rcalls + 1) =>
                /\ pc'[Main] = "idle" /\ sub_ret' = "nullopt"
                /\ messages_received' = messages_received /\ inbox' = inbox]_vars

\* the socket of the publisher holds an endpoint and is write-ready, the
\* socket of the subscriber is connected and holds a message, the latest
\* bind() and connect() failed, and publish_raw and receive_raw have failed
C38_Witness ==
    /\ attached /\ ~bound /\ writable
    /\ mcalls = 1 /\ main_ret = "fail" /\ messages_sent = 0
    /\ linked /\ ~connected /\ inbox # <<>>
    /\ rcalls = 1 /\ sub_ret = "nullopt" /\ messages_received = 0
    /\ pc[Main] = "idle"

\* C39: with send_timeout_ms = 0 a publish_raw on a bound publisher returns
\* failure in the first iteration of its loop: it never polls, never sends a
\* frame and leaves messages_sent as it is, write-ready or not; with
\* receive_timeout_ms = 0 a receive_raw on a connected subscriber returns
\* none in its first iteration: it never polls, takes no frame and leaves
\* messages_received as it is, message waiting or not.
C39_ZeroTimeoutFailsAtOnce ==
    /\ []((send_timeout_ms = 0 /\ InPublish(Main))
            => (pc[Main] = "loop" /\ elapsed[Main] = 0))
    /\ []((receive_timeout_ms = 0 /\ pc[Main] \in {"rloop", "recv"})
            => (pc[Main] = "rloop" /\ elapsed[Main] = 0))
    /\ [][\A late \in BOOLEAN :
            /\ (send_timeout_ms = 0 /\ PublishLoop(Main, late)) =>
                  /\ pc'[Main] = "idle" /\ main_ret' = "fail"
                  /\ messages_sent' = messages_sent /\ partial' = partial
                  /\ published' = published /\ inbox' = inbox
            /\ (receive_timeout_ms = 0 /\ ReceiveLoop(late)) =>
                  /\ pc'[Main] = "idle" /\ sub_ret' = "nullopt"
                  /\ messages_received' = messages_received
                  /\ inbox' = inbox /\ received' = received]_vars

\* both timeouts are 0, no stop was requested, the publisher is bound and
\* write-ready and a message waits on the connected subscriber; publish_raw
\* and receive_raw have returned failure and the counters are 0
C39_Witness ==
    /\ send_timeout_ms = 0 /\ bound /\ writable /\ ~main_stop
    /\ mcalls = 1 /\ main_ret = "fail" /\ messages_sent = 0 /\ partial = <<>>
    /\ receive_timeout_ms = 0 /\ connected /\ inbox # <<>>
    /\ rcalls = 1 /\ sub_ret = "nullopt" /\ messages_received = 0
    /\ pc[Main] = "idle"

\* C40: when a sensor object (camera, lidar or IMU) is destroyed while its
\* PeriodicPublisher is running, the loop is cancelled and has fully exited
\* before any member its generator reads is destroyed: while a thread of the
\* sensor under destruction has not returned, the identifier, the frame
\* counter, the interval, the random generator and the distribution are all
\* alive.
C40_LoopExitsBeforeMembersDie ==
    \A w \in Workers :
        (dtor.p # "none" /\ owner[w] = dtor.p /\ pc[w] # "done")
            => \A g \in 0..(dtor.gone - 1) :
                  NextToDie(dtor.kind, g) \notin GeneratorReads(dtor.kind)

====
